---- MODULE Spec2Model ----
(***************************************************************************)
(* A model of the sonarqube SDK: the authentication providers              *)
(* (sonarqube/auth.py), the HTTP transport (sonarqube/http.py), the        *)
(* client with its lazily built namespace accessors (sonarqube/client.py)  *)
(* and the parameter marshalling of the namespace methods                  *)
(* (sonarqube/api/*.py).                                                   *)
(*                                                                         *)
(* Python values are records tagged with their type in the field t.        *)
(* A str is a sequence of Unicode code points, bytes are a sequence of     *)
(* numbers 0..255, a dict is a function from its keys to its values.       *)
(***************************************************************************)
EXTENDS Integers, Sequences, FiniteSets, TLC

VARIABLES
    pc,        \* position of the caller: which step of the scenario is next
    ctor,      \* the constructor call under study: its path and arguments
    built,     \* what that constructor call produced: an object or an exception
    headers,   \* the mapping returned by get_auth_headers() on the built provider
    client,    \* the SonarQubeClient under study (base_url, _http_client)
    slots,     \* the client's cached namespace slots (_applications, _projects, ...)
    nextId,    \* identity of the next namespace object to be allocated
    lastRead,  \* the accessor last read and the object it returned
    lastClose, \* the last close() call: its receiver and how it ended
    scope,     \* the `with` block the client is used in, if any
    threads,   \* the threads reading an accessor of the client, if any
    call,      \* the call under study: entry point and arguments
    sent,      \* what the call handed to httpx.Client.request
    response,  \* what the dispatch met: a response of the server or a fault
    outcome,   \* how the call ended: returned value or raised exception
    requests,  \* how many times the call entered HTTPClient.request
    dispatches \* how many times the call entered httpx.Client.request

vars == <<pc, ctor, built, headers, client, slots, nextId, lastRead, lastClose, scope,
          threads, call, sent, response, outcome, requests, dispatches>>

authVars == <<ctor, built, headers>>
clientVars == <<client, slots, nextId, lastRead, lastClose, scope, threads>>
httpVars == <<call, sent, response, outcome, requests, dispatches>>

-----------------------------------------------------------------------------
(* Bounds of the model.                                                    *)

\* longest credential string (token, username, password) that is enumerated
MaxStrLen == 1
\* most trailing slashes put on an enumerated base URL
MaxSlashes == 2
\* most sub-errors in the errors list of an enumerated response body
MaxErrors == 2
\* most keyword arguments given (not None) in an enumerated projects.search
MaxArgs == 2
\* number of namespace accessors of the client that are modelled
NumAccessors == 3
\* number of threads that read an accessor of one client
NumThreads == 2
\* largest page_index, page_size and total of an enumerated Paging
MaxPageIndex == 4
MaxPageSize == 4
MaxTotal == 9

-----------------------------------------------------------------------------
(* Python values.                                                          *)

PyNone == [t |-> "NoneType"]
PyStr(s) == [t |-> "str", s |-> s]
PyInt(n) == [t |-> "int", n |-> n]
PyBool(b) == [t |-> "bool", b |-> b]
PyList(l) == [t |-> "list", l |-> l]
\* a dict: d is the function from its keys to its values
PyDict(d) == [t |-> "dict", d |-> d]
\* the empty dict {}
EmptyDict == PyDict([k \in {} |-> PyNone])

\* Python truthiness, as used by `if x:` and `not x`
Truthy(x) ==
    CASE x.t = "NoneType" -> FALSE
      [] x.t = "str" -> x.s # <<>>
      [] x.t = "int" -> x.n # 0
      [] x.t = "bool" -> x.b
      [] x.t = "list" -> x.l # <<>>
      [] x.t = "dict" -> DOMAIN x.d # {}
      [] OTHER -> TRUE

\* the text an f-string puts for a value: str(x)
Format(x) ==
    CASE x.t = "str" -> x.s
      [] x.t = "NoneType" -> <<78, 111, 110, 101>>
      [] OTHER -> <<>>

\* all sequences over S of length at most n
RECURSIVE SeqsUpTo(_, _)
SeqsUpTo(S, n) ==
    IF n = 0 THEN {<<>>}
    ELSE LET shorter == SeqsUpTo(S, n - 1)
         IN shorter \cup {Append(s, c) : s \in shorter, c \in S}

-----------------------------------------------------------------------------
(* str.encode() / bytes.decode(): UTF-8, for code points below 2048.       *)

RECURSIVE Utf8Encode(_)
Utf8Encode(s) ==
    IF s = <<>> THEN <<>>
    ELSE LET c == Head(s)
         IN (IF c < 128 THEN <<c>>
             ELSE <<192 + (c \div 64), 128 + (c % 64)>>) \o Utf8Encode(Tail(s))

RECURSIVE Utf8Decode(_)
Utf8Decode(b) ==
    IF b = <<>> THEN <<>>
    ELSE IF Head(b) < 128 THEN <<Head(b)>> \o Utf8Decode(Tail(b))
    ELSE IF Head(b) >= 192 /\ Head(b) < 224 /\ Len(b) >= 2
         THEN <<(Head(b) - 192) * 64 + (b[2] - 128)>> \o Utf8Decode(SubSeq(b, 3, Len(b)))
    ELSE <<65533>> \o Utf8Decode(Tail(b))

-----------------------------------------------------------------------------
(* base64.b64encode / b64decode over the standard alphabet.                *)

\* the ASCII code of the base64 digit with value i (0..63)
B64Char(i) ==
    IF i < 26 THEN 65 + i
    ELSE IF i < 52 THEN 97 + (i - 26)
    ELSE IF i < 62 THEN 48 + (i - 52)
    ELSE IF i = 62 THEN 43
    ELSE 47

\* the value of a base64 digit given by its ASCII code
B64Index(c) ==
    IF c >= 65 /\ c <= 90 THEN c - 65
    ELSE IF c >= 97 /\ c <= 122 THEN c - 97 + 26
    ELSE IF c >= 48 /\ c <= 57 THEN c - 48 + 52
    ELSE IF c = 43 THEN 62
    ELSE 63

\* ASCII '='
B64Pad == 61

RECURSIVE b64encode(_)
b64encode(b) ==
    IF Len(b) = 0 THEN <<>>
    ELSE IF Len(b) = 1 THEN
        <<B64Char(b[1] \div 4), B64Char((b[1] % 4) * 16), B64Pad, B64Pad>>
    ELSE IF Len(b) = 2 THEN
        <<B64Char(b[1] \div 4),
          B64Char((b[1] % 4) * 16 + (b[2] \div 16)),
          B64Char((b[2] % 16) * 4),
          B64Pad>>
    ELSE
        <<B64Char(b[1] \div 4),
          B64Char((b[1] % 4) * 16 + (b[2] \div 16)),
          B64Char((b[2] % 16) * 4 + (b[3] \div 64)),
          B64Char(b[3] % 64)>> \o b64encode(SubSeq(b, 4, Len(b)))

RECURSIVE b64decode(_)
b64decode(s) ==
    IF Len(s) < 4 THEN <<>>
    ELSE LET i1 == B64Index(s[1])
             i2 == B64Index(s[2])
             i3 == B64Index(s[3])
             i4 == B64Index(s[4])
             b1 == i1 * 4 + (i2 \div 16)
             b2 == (i2 % 16) * 16 + (i3 \div 4)
             b3 == (i3 % 4) * 64 + i4
         IN IF s[3] = B64Pad THEN <<b1>>
            ELSE IF s[4] = B64Pad THEN <<b1, b2>>
            ELSE <<b1, b2, b3>> \o b64decode(SubSeq(s, 5, Len(s)))

-----------------------------------------------------------------------------
(* sonarqube/auth.py                                                       *)

\* the text "Basic "
BasicPrefix == <<66, 97, 115, 105, 99, 32>>
\* the text ":"
Colon == <<58>>

\* a constructor or factory call that returned obj
Returned(obj) == [raised |-> "none", obj |-> obj]
\* a constructor or factory call that raised the exception exc
Raised(exc) == [raised |-> exc, obj |-> PyNone]

\* TokenAuth.__init__
TokenAuth(token) ==
    IF ~Truthy(token) THEN Raised("ValueError")
    ELSE Returned([t |-> "TokenAuth", token |-> token])

TokenAuth_get_auth_headers_NoColon(self) ==
    [k \in {"Authorization"} |->
        BasicPrefix \o b64encode(Utf8Encode(Format(self.token)))]

\* TokenAuth.get_auth_headers
TokenAuth_get_auth_headers(self) ==
    LET credentials == Format(self.token) \o Colon
        encoded == b64encode(Utf8Encode(credentials))
    IN [k \in {"Authorization"} |-> BasicPrefix \o encoded]

\* BasicAuth.__init__
BasicAuth(username, password) ==
    IF ~Truthy(username) THEN Raised("ValueError")
    ELSE Returned([t |-> "BasicAuth", username |-> username, password |-> password])

\* BasicAuth.get_auth_headers
BasicAuth_get_auth_headers(self) ==
    LET credentials == Format(self.username) \o Colon \o Format(self.password)
        encoded == b64encode(Utf8Encode(credentials))
    IN [k \in {"Authorization"} |-> BasicPrefix \o encoded]

\* the text of the API key a caller-written provider sends
ApiKey == <<107>>

\* BaseAuth.get_auth_headers, dispatched on the class of the provider; the
\* third class is the caller-written provider of the BaseAuth docstring
get_auth_headers(self) ==
    CASE self.t = "TokenAuth" -> TokenAuth_get_auth_headers(self)
      [] self.t = "BasicAuth" -> BasicAuth_get_auth_headers(self)
      [] OTHER -> [k \in {"X-API-Key"} |-> ApiKey]

create_auth_BasicFirst(token, username, password) ==
    IF Truthy(username) THEN
        IF password = PyNone THEN Raised("ValueError")
        ELSE BasicAuth(username, password)
    ELSE IF Truthy(token) THEN TokenAuth(token)
    ELSE Returned(PyNone)

\* create_auth
create_auth(token, username, password) ==
    IF Truthy(token) THEN TokenAuth(token)
    ELSE IF Truthy(username) THEN
        IF password = PyNone THEN Raised("ValueError")
        ELSE BasicAuth(username, password)
    ELSE Returned(PyNone)

-----------------------------------------------------------------------------
(* sonarqube/http.py and sonarqube/client.py: construction.                *)

\* ASCII '/'
Slash == 47

\* str.rstrip("/")
RECURSIVE rstrip(_)
rstrip(s) ==
    IF s # <<>> /\ s[Len(s)] = Slash THEN rstrip(SubSeq(s, 1, Len(s) - 1))
    ELSE s

\* request timeout in seconds when the caller gives none
DEFAULT_TIMEOUT == 30

\* the headers every HTTPClient starts from
DefaultHeaders ==
    [k \in {"Accept", "Content-Type"} |->
        IF k = "Accept"
        THEN <<97, 112, 112, 108, 105, 99, 97, 116, 105, 111, 110, 47, 106, 115, 111, 110>>
        ELSE <<97, 112, 112, 108, 105, 99, 97, 116, 105, 111, 110, 47, 120, 45, 119,
               119, 119, 45, 102, 111, 114, 109, 45, 117, 114, 108, 101, 110, 99, 111,
               100, 101, 100>>]

\* dict.update: the entries of extra override those of base
DictUpdate(base, extra) ==
    [k \in DOMAIN base \cup DOMAIN extra |->
        IF k \in DOMAIN extra THEN extra[k] ELSE base[k]]

\* HTTPClient.__init__; headers and closed are the state of the httpx.Client,
\* id is the identity of the object (0 for the first one constructed)
HTTPClient(base_url, auth, timeout) ==
    Returned([t |-> "HTTPClient",
              id |-> 0,
              base_url |-> rstrip(base_url),
              auth |-> auth,
              timeout |-> timeout,
              headers |-> IF Truthy(auth)
                          THEN DictUpdate(DefaultHeaders, get_auth_headers(auth))
                          ELSE DefaultHeaders,
              closed |-> FALSE])

SonarQubeClient_KeepSlashes(base_url, token, username, password, auth, timeout) ==
    LET a == IF auth = PyNone THEN create_auth(token, username, password)
             ELSE Returned(auth)
    IN IF a.raised # "none" THEN Raised(a.raised)
       ELSE Returned([t |-> "SonarQubeClient",
                      base_url |-> base_url,
                      http_client |-> HTTPClient(base_url, a.obj, timeout).obj])

SonarQubeClient_EagerFactory(base_url, token, username, password, auth, timeout) ==
    LET url == rstrip(base_url)
        c == create_auth(token, username, password)
        a == IF c.raised # "none" \/ auth = PyNone THEN c ELSE Returned(auth)
    IN IF a.raised # "none" THEN Raised(a.raised)
       ELSE Returned([t |-> "SonarQubeClient",
                      base_url |-> url,
                      http_client |-> HTTPClient(url, a.obj, timeout).obj])

\* SonarQubeClient.__init__, up to the creation of the HTTP client
SonarQubeClient(base_url, token, username, password, auth, timeout) ==
    LET url == rstrip(base_url)
        a == IF auth = PyNone THEN create_auth(token, username, password)
             ELSE Returned(auth)
    IN IF a.raised # "none" THEN Raised(a.raised)
       ELSE Returned([t |-> "SonarQubeClient",
                      base_url |-> url,
                      http_client |-> HTTPClient(url, a.obj, timeout).obj])

-----------------------------------------------------------------------------
(* sonarqube/http.py and sonarqube/client.py: close() and the context      *)
(* manager protocol. A method gives the receiver as it leaves it (self)    *)
(* and how it ended (outcome).                                             *)

\* a method that returned v
Return(v) == [kind |-> "return", value |-> v]
\* a method that raised the exception e
Raise(e) == [kind |-> "raise", exc |-> e]

\* an exception that is not one of the SDK's: only its class is kept
OtherError(cls) == [t |-> cls]

HTTPClient_close_Once(self) ==
    IF self.closed
    THEN [self |-> self, outcome |-> Raise(OtherError("RuntimeError"))]
    ELSE [self |-> [self EXCEPT !.closed = TRUE], outcome |-> Return(PyNone)]

\* HTTPClient.close: httpx.Client.close() closes the transport of an open
\* client and does nothing on a closed one
HTTPClient_close(self) ==
    [self |-> [self EXCEPT !.closed = TRUE], outcome |-> Return(PyNone)]

\* HTTPClient.__enter__
HTTPClient_enter(self) == [self |-> self, outcome |-> Return(self)]

\* HTTPClient.__exit__: close(), then the implicit return of None
HTTPClient_exit(self, exc) ==
    LET r == HTTPClient_close(self)
    IN IF r.outcome.kind = "raise" THEN r
       ELSE [self |-> r.self, outcome |-> Return(PyNone)]

\* SonarQubeClient.close
SonarQubeClient_close(self) ==
    LET r == HTTPClient_close(self.http_client)
    IN [self |-> [self EXCEPT !.http_client = r.self], outcome |-> r.outcome]

\* SonarQubeClient.__enter__
SonarQubeClient_enter(self) == [self |-> self, outcome |-> Return(self)]

SonarQubeClient_exit_Suppress(self, exc) ==
    LET r == SonarQubeClient_close(self)
    IN IF r.outcome.kind = "raise" THEN r
       ELSE [self |-> r.self, outcome |-> Return(PyBool(TRUE))]

\* SonarQubeClient.__exit__: close(), then the implicit return of None
SonarQubeClient_exit(self, exc) ==
    LET r == SonarQubeClient_close(self)
    IN IF r.outcome.kind = "raise" THEN r
       ELSE [self |-> r.self, outcome |-> Return(PyNone)]

\* what leaves a `with` block whose body ended with the exception body
\* ("none" when it ended normally) and whose __exit__ ended as exit: an
\* exception of __exit__ replaces that of the body, a truthy return value
\* of __exit__ suppresses it
Propagated(body, exit) ==
    IF exit.kind = "raise" THEN exit.exc.t
    ELSE IF body # "none" /\ Truthy(exit.value) THEN "none"
    ELSE body

-----------------------------------------------------------------------------
(* The constructor calls that are enumerated.                              *)

\* the characters of the enumerated credentials: 'a', ':' and 'é'
Chars == {97, 58, 233}
Strs == {PyStr(s) : s \in SeqsUpTo(Chars, MaxStrLen)}
OptStrs == {PyNone} \cup Strs

RECURSIVE Slashes(_)
Slashes(n) == IF n = 0 THEN <<>> ELSE <<Slash>> \o Slashes(n - 1)

\* "", "h" and "h/a", each followed by 0..MaxSlashes slashes
BaseUrls ==
    {stem \o Slashes(n) : stem \in {<<>>, <<104>>, <<104, 47, 97>>}, n \in 0..MaxSlashes}

\* the auth argument: none, a caller-written provider, a ready TokenAuth
AuthArgs == {PyNone, [t |-> "CustomAuth"], [t |-> "TokenAuth", token |-> PyStr(<<97>>)]}

CtorCalls ==
    {[path |-> "TokenAuth", token |-> tk] : tk \in OptStrs}
    \cup {[path |-> "BasicAuth", username |-> u, password |-> p] :
            u \in OptStrs, p \in OptStrs}
    \cup {[path |-> "create_auth", token |-> tk, username |-> u, password |-> p] :
            tk \in OptStrs, u \in OptStrs, p \in OptStrs}
    \cup {[path |-> "HTTPClient", base_url |-> b, auth |-> a] :
            b \in BaseUrls, a \in AuthArgs}
    \cup {[path |-> "SonarQubeClient", base_url |-> b, token |-> tk,
           username |-> u, password |-> p, auth |-> a] :
            b \in BaseUrls, tk \in OptStrs, u \in OptStrs, p \in OptStrs,
            a \in AuthArgs}

\* values of the variables a specification does not use
NoCall == [kind |-> "none"]
NoClient == [t |-> "NoneType"]
NoSlots == [a \in {} |-> 0]
NoRead == [accessor |-> "none", obj |-> PyNone]
NoClose == [on |-> "none"]
NoScope == [state |-> "none"]
NoThreads == <<>>

IdleClient ==
    /\ client = NoClient
    /\ slots = NoSlots
    /\ nextId = 1
    /\ lastRead = NoRead
    /\ lastClose = NoClose
    /\ scope = NoScope
    /\ threads = NoThreads

IdleHttp ==
    /\ call = NoCall
    /\ sent = NoCall
    /\ response = NoCall
    /\ outcome = NoCall
    /\ requests = 0
    /\ dispatches = 0

-----------------------------------------------------------------------------
(* Specification Spec: one constructor call, then get_auth_headers() on    *)
(* the provider it produced.                                               *)

Init ==
    /\ pc = "args"
    /\ ctor \in CtorCalls
    /\ built = Returned(PyNone)
    /\ headers = PyNone
    /\ IdleClient
    /\ IdleHttp

\* auth = TokenAuth(token)
NewTokenAuth ==
    /\ pc = "args"
    /\ ctor.path = "TokenAuth"
    /\ built' = TokenAuth(ctor.token)
    /\ pc' = "built"
    /\ UNCHANGED <<ctor, headers, clientVars, httpVars>>

\* auth = BasicAuth(username, password)
NewBasicAuth ==
    /\ pc = "args"
    /\ ctor.path = "BasicAuth"
    /\ built' = BasicAuth(ctor.username, ctor.password)
    /\ pc' = "built"
    /\ UNCHANGED <<ctor, headers, clientVars, httpVars>>

\* auth = create_auth(token, username, password)
CreateAuth ==
    /\ pc = "args"
    /\ ctor.path = "create_auth"
    /\ built' = create_auth(ctor.token, ctor.username, ctor.password)
    /\ pc' = "built"
    /\ UNCHANGED <<ctor, headers, clientVars, httpVars>>

\* http = HTTPClient(base_url, auth)
NewHTTPClient ==
    /\ pc = "args"
    /\ ctor.path = "HTTPClient"
    /\ built' = HTTPClient(ctor.base_url, ctor.auth, DEFAULT_TIMEOUT)
    /\ pc' = "built"
    /\ UNCHANGED <<ctor, headers, clientVars, httpVars>>

\* client = SonarQubeClient(base_url, token, username, password, auth)
NewSonarQubeClient ==
    /\ pc = "args"
    /\ ctor.path = "SonarQubeClient"
    /\ built' = SonarQubeClient(ctor.base_url, ctor.token, ctor.username,
                                ctor.password, ctor.auth, DEFAULT_TIMEOUT)
    /\ pc' = "built"
    /\ UNCHANGED <<ctor, headers, clientVars, httpVars>>

\* headers = auth.get_auth_headers(), on the provider a call produced
GetAuthHeaders ==
    /\ pc = "built"
    /\ built.raised = "none"
    /\ built.obj.t \in {"TokenAuth", "BasicAuth"}
    /\ headers' = get_auth_headers(built.obj)
    /\ pc' = "headers"
    /\ UNCHANGED <<ctor, built, clientVars, httpVars>>

Next ==
    \/ NewTokenAuth
    \/ NewBasicAuth
    \/ CreateAuth
    \/ NewHTTPClient
    \/ NewSonarQubeClient
    \/ GetAuthHeaders

Spec == Init /\ [][Next]_vars

-----------------------------------------------------------------------------
(* Claims about construction and authentication, checked under Spec.       *)

\* the text that the Authorization header carries after "Basic ", decoded
\* from base64 and then from UTF-8
AuthorizationText(h) ==
    LET v == h["Authorization"]
    IN Utf8Decode(b64decode(SubSeq(v, Len(BasicPrefix) + 1, Len(v))))

\* the header value starts with "Basic "
HasBasicPrefix(h) ==
    LET v == h["Authorization"]
    IN Len(v) >= Len(BasicPrefix) /\ SubSeq(v, 1, Len(BasicPrefix)) = BasicPrefix

\* the credentials the factory is given, on the two paths that run it
UsesFactory ==
    \/ ctor.path = "create_auth"
    \/ ctor.path = "SonarQubeClient" /\ ctor.auth = PyNone

\* the provider the factory chose: the returned one for create_auth, the one
\* handed to the Transport for SonarQubeClient
ChosenAuth ==
    IF ctor.path = "create_auth" THEN built.obj ELSE built.obj.http_client.auth

BadCredentials ==
    \/ ctor.path = "TokenAuth" /\ ctor.token = PyStr(<<>>)
    \/ /\ ctor.path = "BasicAuth"
       /\ ctor.username = PyStr(<<>>) \/ ctor.password = PyNone
    \/ /\ UsesFactory
       /\ \/ ctor.token = PyStr(<<>>)
          \/ ctor.username = PyStr(<<>>)
          \/ ctor.username # PyNone /\ ctor.password = PyNone

\* C8: an empty token, an empty username and a username without a password
\* each end the construction with a ValueError, on every construction path
\* (TokenAuth, BasicAuth, create_auth, SonarQubeClient).
C8_BadCredentialsRaise ==
    (pc # "args" /\ BadCredentials) => built.raised = "ValueError"

\* C9: get_auth_headers returns the single header Authorization, whose value
\* is "Basic " followed by a base64 text that decodes to "token:" for
\* TokenAuth and to "username:password" for BasicAuth.
C9_BasicHeaderRoundTrip ==
    pc = "headers" =>
        /\ DOMAIN headers = {"Authorization"}
        /\ HasBasicPrefix(headers)
        /\ (Len(headers["Authorization"]) - Len(BasicPrefix)) % 4 = 0
        /\ built.obj.t = "TokenAuth" =>
             AuthorizationText(headers) = built.obj.token.s \o Colon
        /\ (built.obj.t = "BasicAuth" /\ built.obj.password.t = "str") =>
             AuthorizationText(headers) =
                 built.obj.username.s \o Colon \o built.obj.password.s

\* headers were computed for a BasicAuth whose password has a two-byte character
C9_Witness ==
    /\ pc = "headers"
    /\ built.obj.t = "BasicAuth"
    /\ built.obj.password = PyStr(<<233>>)
    /\ AuthorizationText(headers) = built.obj.username.s \o <<58, 233>>

-----------------------------------------------------------------------------
(* sonarqube/exceptions.py                                                 *)

\* SonarQubeAPIError.__init__
SonarQubeAPIError(message, status_code, errors, details) ==
    [t |-> "SonarQubeAPIError",
     message |-> message,
     status_code |-> status_code,
     errors |-> IF Truthy(errors) THEN errors ELSE PyList(<<>>),
     details |-> details]

\* SonarQubeAuthenticationError.__init__
SonarQubeAuthenticationError(message, details) ==
    [SonarQubeAPIError(message, 401, PyNone, details)
        EXCEPT !.t = "SonarQubeAuthenticationError"]

\* SonarQubePermissionError.__init__
SonarQubePermissionError(message, details) ==
    [SonarQubeAPIError(message, 403, PyNone, details)
        EXCEPT !.t = "SonarQubePermissionError"]

SonarQubeNotFoundError_ErrorsFromDetails(message, details) ==
    [SonarQubeAPIError(message, 404,
                       IF details.t = "dict" /\ "errors" \in DOMAIN details.d
                       THEN details.d["errors"] ELSE PyNone,
                       details)
        EXCEPT !.t = "SonarQubeNotFoundError"]

\* SonarQubeNotFoundError.__init__
SonarQubeNotFoundError(message, details) ==
    [SonarQubeAPIError(message, 404, PyNone, details)
        EXCEPT !.t = "SonarQubeNotFoundError"]

SonarQubeValidationError_FirstOnly(message, errors, details) ==
    [SonarQubeAPIError(message, 400,
                       IF Truthy(errors) THEN PyList(<<errors.l[1]>>) ELSE errors,
                       details)
        EXCEPT !.t = "SonarQubeValidationError"]

\* SonarQubeValidationError.__init__
SonarQubeValidationError(message, errors, details) ==
    [SonarQubeAPIError(message, 400, errors, details)
        EXCEPT !.t = "SonarQubeValidationError"]

\* SonarQubeConnectionError.__init__
SonarQubeConnectionError(message, details) ==
    [t |-> "SonarQubeConnectionError", message |-> message, details |-> details]

\* the base named in the class statement of an exception class; a class
\* that is not one of the SDK's derives from Exception
BaseClass(cls) ==
    CASE cls = "SonarQubeError" -> "Exception"
      [] cls = "SonarQubeAPIError" -> "SonarQubeError"
      [] cls = "SonarQubeAuthenticationError" -> "SonarQubeAPIError"
      [] cls = "SonarQubePermissionError" -> "SonarQubeAPIError"
      [] cls = "SonarQubeNotFoundError" -> "SonarQubeAPIError"
      [] cls = "SonarQubeValidationError" -> "SonarQubeAPIError"
      [] cls = "SonarQubeConnectionError" -> "SonarQubeError"
      [] OTHER -> "Exception"

\* issubclass(cls, base)
RECURSIVE issubclass(_, _)
issubclass(cls, base) ==
    \/ cls = base
    \/ cls # "Exception" /\ issubclass(BaseClass(cls), base)

-----------------------------------------------------------------------------
(* sonarqube/http.py: the request pipeline.                                *)

\* the text "Unknown error"
UnknownError == PyStr(<<85, 110, 107, 110, 111, 119, 110, 32, 101, 114, 114, 111, 114>>)

\* httpx.Response.is_success
is_success(resp) == resp.status_code >= 200 /\ resp.status_code <= 299

\* httpx.Response.text of a body that is not a JSON document
ResponseText(resp) ==
    IF resp.body.b = "text" THEN PyStr(resp.body.text) ELSE PyStr(<<>>)

\* dict.get(key, default)
DictGet(dict, key, default) ==
    IF key \in DOMAIN dict.d THEN dict.d[key] ELSE default

\* lines 179-188 of _handle_response: the message, the sub-errors and the
\* details taken from the body of an error response, or the exception that
\* escapes while taking them
ParseError(resp) ==
    IF resp.body.b # "json" THEN
        [exc |-> "none",
         error_data |-> PyNone,
         errors |-> PyList(<<>>),
         message |-> IF Truthy(ResponseText(resp)) THEN ResponseText(resp)
                     ELSE UnknownError]
    ELSE
        LET error_data == resp.body.value
            errors == DictGet(error_data, "errors", PyList(<<>>))
            failed(exc) == [exc |-> exc, error_data |-> error_data,
                            errors |-> PyList(<<>>), message |-> UnknownError]
            parsed(message) == [exc |-> "none", error_data |-> error_data,
                                errors |-> errors, message |-> message]
        IN IF error_data.t # "dict" THEN failed("AttributeError")
           ELSE IF ~Truthy(errors) THEN parsed(UnknownError)
           ELSE IF errors.t = "list" THEN
                IF errors.l[1].t = "dict"
                THEN parsed(DictGet(errors.l[1], "msg", UnknownError))
                ELSE failed("AttributeError")
           ELSE IF errors.t = "str" THEN failed("AttributeError")
           ELSE IF errors.t = "dict" THEN failed("KeyError")
           ELSE failed("TypeError")

handle_response_No204(self, resp) ==
    IF is_success(resp) THEN
        IF resp.body.b = "json" THEN Return(resp.body.value)
        ELSE Raise(OtherError("JSONDecodeError"))
    ELSE
        LET e == ParseError(resp)
        IN Raise(SonarQubeAPIError(e.message, resp.status_code, e.errors, e.error_data))

handle_response_AllGeneric(self, resp) ==
    IF is_success(resp) THEN
        IF resp.status_code = 204 THEN Return(EmptyDict)
        ELSE IF resp.body.b = "json" THEN Return(resp.body.value)
        ELSE Return(EmptyDict)
    ELSE
        LET e == ParseError(resp)
        IN Raise(SonarQubeAPIError(e.message, resp.status_code, e.errors, e.error_data))

\* HTTPClient._handle_response
handle_response(self, resp) ==
    IF is_success(resp) THEN
        IF resp.status_code = 204 THEN Return(EmptyDict)
        ELSE IF resp.body.b = "json" THEN Return(resp.body.value)
        ELSE Return(EmptyDict)
    ELSE
        LET e == ParseError(resp)
        IN IF e.exc # "none" THEN Raise(OtherError(e.exc))
           ELSE IF resp.status_code = 401
                THEN Raise(SonarQubeAuthenticationError(e.message, e.error_data))
           ELSE IF resp.status_code = 403
                THEN Raise(SonarQubePermissionError(e.message, e.error_data))
           ELSE IF resp.status_code = 404
                THEN Raise(SonarQubeNotFoundError(e.message, e.error_data))
           ELSE IF resp.status_code = 400
                THEN Raise(SonarQubeValidationError(e.message, e.errors, e.error_data))
           ELSE Raise(SonarQubeAPIError(e.message, resp.status_code, e.errors,
                                        e.error_data))

\* the decimal digits of a natural number, as text
RECURSIVE Digits(_)
Digits(n) == IF n < 10 THEN <<48 + n>> ELSE Digits(n \div 10) \o <<48 + (n % 10)>>

\* the text "Failed to connect to "
FailedToConnect ==
    <<70, 97, 105, 108, 101, 100, 32, 116, 111, 32, 99, 111, 110, 110, 101, 99, 116,
      32, 116, 111, 32>>
\* the text "Request timed out after "
TimedOutAfter ==
    <<82, 101, 113, 117, 101, 115, 116, 32, 116, 105, 109, 101, 100, 32, 111, 117,
      116, 32, 97, 102, 116, 101, 114, 32>>
\* the text "HTTP error occurred"
HttpErrorOccurred ==
    <<72, 84, 84, 80, 32, 101, 114, 114, 111, 114, 32, 111, 99, 99, 117, 114, 114,
      101, 100>>

FilterNone_Falsy(m) ==
    IF Truthy(m)
    THEN PyDict([k \in {j \in DOMAIN m.d : Truthy(m.d[j])} |-> m.d[k]])
    ELSE m

\* the {k: v for k, v in m.items() if v is not None} of request, applied
\* only when the mapping is truthy
FilterNone(m) ==
    IF Truthy(m)
    THEN PyDict([k \in {j \in DOMAIN m.d : m.d[j] # PyNone} |-> m.d[k]])
    ELSE m

\* what request hands to httpx.Client.request
Dispatch(method, path, params, data, json_data) ==
    [method |-> method, url |-> path, params |-> params, data |-> data,
     json |-> json_data]

request_NoFilter(self, method, path, params, data, json_data, env) ==
    LET sending == Dispatch(method, path, params, data, json_data)
    IN [sent |-> sending,
        requests |-> 1,
        dispatches |-> 1,
        outcome |->
            IF self.closed THEN Raise(OtherError("RuntimeError"))
            ELSE IF env.fault # "none" THEN
                Raise(SonarQubeConnectionError(PyStr(HttpErrorOccurred), PyStr(env.text)))
            ELSE handle_response(self, env.response)]

request_Retry(self, method, path, params, data, json_data, env) ==
    LET sending == Dispatch(method, path, FilterNone(params), FilterNone(data),
                            json_data)
    IN [sent |-> sending,
        requests |-> 1,
        dispatches |-> IF env.fault # "none" THEN 2 ELSE 1,
        outcome |->
            IF self.closed THEN Raise(OtherError("RuntimeError"))
            ELSE IF env.fault # "none" THEN
                Raise(SonarQubeConnectionError(
                        PyStr(FailedToConnect \o self.base_url), PyStr(env.text)))
            ELSE handle_response(self, env.response)]

\* HTTPClient.request; env is what the dispatch meets: a response of the
\* server or a transport fault. A closed httpx.Client refuses to send.
\* requests and dispatches count the entries into HTTPClient.request and
\* into httpx.Client.request that the call makes.
request(self, method, path, params, data, json_data, env) ==
    LET sending == Dispatch(method, path, FilterNone(params), FilterNone(data),
                            json_data)
    IN [sent |-> sending,
        requests |-> 1,
        dispatches |-> 1,
        outcome |->
            IF self.closed THEN Raise(OtherError("RuntimeError"))
            ELSE IF env.fault = "ConnectError" THEN
                Raise(SonarQubeConnectionError(
                        PyStr(FailedToConnect \o self.base_url), PyStr(env.text)))
            ELSE IF env.fault = "TimeoutException" THEN
                Raise(SonarQubeConnectionError(
                        PyStr(TimedOutAfter \o Digits(self.timeout) \o <<46, 48, 115>>),
                        PyStr(env.text)))
            ELSE IF env.fault = "HTTPError" THEN
                Raise(SonarQubeConnectionError(PyStr(HttpErrorOccurred), PyStr(env.text)))
            ELSE handle_response(self, env.response)]

\* HTTPClient.get
get(self, path, params, env) ==
    request(self, "GET", path, params, PyNone, PyNone, env)

\* HTTPClient.post
post(self, path, params, data, env) ==
    request(self, "POST", path, params, data, PyNone, env)

-----------------------------------------------------------------------------
(* sonarqube/models: the response models and their validation.             *)

\* a field of a model: its name, its wire alias, whether it is required,
\* its type (a Python type or the name of a nested model), whether None is
\* allowed, and its default
Field(name, alias, required, type, optional, default) ==
    [name |-> name, alias |-> alias, required |-> required, type |-> type,
     optional |-> optional, default |-> default]

\* models/common.py
Paging ==
    [name |-> "Paging",
     fields |-> {Field("page_index", "pageIndex", TRUE, "int", FALSE, PyNone),
                 Field("page_size", "pageSize", TRUE, "int", FALSE, PyNone),
                 Field("total", "total", TRUE, "int", FALSE, PyNone)}]

Paging_total_pages_Floor(self) ==
    IF self.d["page_size"].n <= 0 THEN PyInt(0)
    ELSE PyInt(self.d["total"].n \div self.d["page_size"].n)

\* Paging.total_pages; self is a validated Paging
Paging_total_pages(self) ==
    IF self.d["page_size"].n <= 0 THEN PyInt(0)
    ELSE PyInt((self.d["total"].n + self.d["page_size"].n - 1)
                   \div self.d["page_size"].n)

\* Paging.has_next_page
Paging_has_next_page(self) ==
    PyBool(self.d["page_index"].n < Paging_total_pages(self).n)

\* models/projects.py
ProjectSearchResponse ==
    [name |-> "ProjectSearchResponse",
     fields |-> {Field("paging", "paging", TRUE, "Paging", FALSE, PyNone),
                 Field("components", "components", FALSE, "list", FALSE, PyList(<<>>))}]

\* models/projects.py
LicenseUsageResponse ==
    [name |-> "LicenseUsageResponse",
     fields |-> {Field("lines_of_code", "linesOfCode", FALSE, "int", TRUE, PyNone)}]

\* models/users.py: login and name of User; its other fields are optional
\* like name
User ==
    [name |-> "User",
     fields |-> {Field("login", "login", TRUE, "str", FALSE, PyNone),
                 Field("name", "name", FALSE, "str", TRUE, PyNone)}]

\* models/applications.py
ApplicationSearchResponse ==
    [name |-> "ApplicationSearchResponse",
     fields |-> {Field("paging", "paging", TRUE, "Paging", FALSE, PyNone),
                 Field("applications", "applications", FALSE, "list", FALSE,
                       PyList(<<>>))}]

\* str.strip(): without its leading and trailing whitespace
RECURSIVE strip(_)
strip(s) ==
    IF s = <<>> THEN s
    ELSE IF Head(s) \in {9, 10, 11, 12, 13, 32} THEN strip(Tail(s))
    ELSE IF s[Len(s)] \in {9, 10, 11, 12, 13, 32} THEN strip(SubSeq(s, 1, Len(s) - 1))
    ELSE s

FieldValue_Raw(v) == v

\* the value a field takes from a wire value of its type: a str is stripped
\* (str_strip_whitespace), anything else is taken as it is
FieldValue(v) == IF v.t = "str" THEN PyStr(strip(v.s)) ELSE v

\* SonarQubeModel.model_validate under the model_config of models/base.py:
\* a field is read under its alias or, failing that, its name; keys that are
\* no field are ignored; a missing required field or a value of the wrong
\* type is a pydantic ValidationError
RECURSIVE model_validate(_, _)
model_validate(model, data) ==
    IF data.t # "dict" THEN Raise(OtherError("ValidationError"))
    ELSE
        LET d == data.d
            present(f) == f.alias \in DOMAIN d \/ f.name \in DOMAIN d
            raw(f) == IF f.alias \in DOMAIN d THEN d[f.alias] ELSE d[f.name]
            field(f) ==
                IF ~present(f) THEN
                    IF f.required THEN Raise(OtherError("ValidationError"))
                    ELSE Return(f.default)
                ELSE IF f.optional /\ raw(f) = PyNone THEN Return(PyNone)
                ELSE IF f.type = "Paging" THEN model_validate(Paging, raw(f))
                ELSE IF raw(f).t = f.type THEN Return(FieldValue(raw(f)))
                ELSE Raise(OtherError("ValidationError"))
        IN IF \E f \in model.fields : field(f).kind = "raise"
           THEN Raise(OtherError("ValidationError"))
           ELSE Return([t |-> "model",
                        cls |-> model.name,
                        d |-> [n \in {f.name : f \in model.fields} |->
                                 field(CHOOSE f \in model.fields : f.name = n).value]])

request_model_Unvalidated(self, method, path, response_model, params, data, env) ==
    request(self, method, path, params, data, PyNone, env)

\* HTTPClient.request_model
request_model(self, method, path, response_model, params, data, env) ==
    LET r == request(self, method, path, params, data, PyNone, env)
    IN IF r.outcome.kind = "raise" THEN r
       ELSE [r EXCEPT !.outcome = model_validate(response_model, r.outcome.value)]

\* HTTPClient.get_model
get_model(self, path, response_model, params, env) ==
    request_model(self, "GET", path, response_model, params, PyNone, env)

\* HTTPClient.post_model
post_model(self, path, response_model, params, data, env) ==
    request_model(self, "POST", path, response_model, params, data, env)

-----------------------------------------------------------------------------
(* sonarqube/api: the namespace classes. A path is the sequence of its     *)
(* segments; self is [API_PATH, client], client being the HTTPClient.      *)

\* BaseAPI.__init__, with the API_PATH of the subclass
Namespace(api_path, http) == [API_PATH |-> api_path, client |-> http]

\* BaseAPI._build_path
build_path(self, endpoint) == self.API_PATH \o endpoint

\* BaseAPI._get
BaseAPI_get(self, endpoint, params, env) ==
    get(self.client, build_path(self, endpoint), params, env)

\* BaseAPI._post
BaseAPI_post(self, endpoint, params, data, env) ==
    post(self.client, build_path(self, endpoint), params, data, env)

\* BaseAPI._get_model
BaseAPI_get_model(self, endpoint, response_model, params, env) ==
    get_model(self.client, build_path(self, endpoint), response_model, params, env)

\* BaseAPI._post_model
BaseAPI_post_model(self, endpoint, response_model, params, data, env) ==
    post_model(self.client, build_path(self, endpoint), response_model, params,
               data, env)

\* d[key] = value
DictSet(dict, key, value) ==
    PyDict([k \in DOMAIN dict.d \cup {key} |-> IF k = key THEN value ELSE dict.d[k]])

\* if cond: d[key] = value
SetIf(cond, dict, key, value) == IF cond THEN DictSet(dict, key, value) ELSE dict

\* str(b).lower() of a bool: "true" or "false"
BoolLower(b) ==
    IF b.b THEN PyStr(<<116, 114, 117, 101>>) ELSE PyStr(<<102, 97, 108, 115, 101>>)

\* ",".join(l) of a list of str
RECURSIVE JoinSeq(_)
JoinSeq(l) ==
    IF l = <<>> THEN <<>>
    ELSE IF Len(l) = 1 THEN l[1].s
    ELSE l[1].s \o <<44>> \o JoinSeq(Tail(l))

CommaJoin(list) == PyStr(JoinSeq(list.l))

ApplicationsApiPath == <<"api", "applications">>
ProjectsApiPath == <<"api", "projects">>
SettingsApiPath == <<"api", "settings">>
UsersApiPath == <<"api", "users">>
SourcesApiPath == <<"api", "sources">>
QualityProfilesApiPath == <<"api", "qualityprofiles">>
IssuesApiPath == <<"api", "issues">>

\* str(v) of the value a call of _get returns: a str is itself, None is
\* "None", the empty dict is "{}" and the empty list is "[]"; the text of
\* any other value is its repr, kept as the value it renders
Str(v) ==
    CASE v.t = "str" -> v
      [] v = PyNone -> PyStr(<<78, 111, 110, 101>>)
      [] v = EmptyDict -> PyStr(<<123, 125>>)
      [] v = PyList(<<>>) -> PyStr(<<91, 93>>)
      [] OTHER -> [t |-> "str", repr |-> v]

\* ApplicationsAPI.create_branch: the two lists go into the form data as
\* they are; the result of _post is dropped
ApplicationsAPI_create_branch(self, application, branch, project, project_branch, env) ==
    LET d0 == PyDict([application |-> application, branch |-> branch,
                      project |-> project])
        d1 == SetIf(Truthy(project_branch), d0, "projectBranch", project_branch)
        r == BaseAPI_post(self, <<"create_branch">>, PyNone, d1, env)
    IN IF r.outcome.kind = "raise" THEN r
       ELSE [r EXCEPT !.outcome = Return(PyNone)]

\* ApplicationsAPI.search
ApplicationsAPI_search(self, p, ps, q, env) ==
    BaseAPI_get_model(self, <<"search">>, ApplicationSearchResponse,
                      PyDict([p |-> p, ps |-> ps, q |-> q]), env)

ProjectsAPI_search_TruthyBool(self, a, env) ==
    LET p0 == EmptyDict
        p1 == SetIf(Truthy(a.analyzed_before), p0, "analyzedBefore", a.analyzed_before)
        p2 == SetIf(Truthy(a.on_provisioned_only), p1, "onProvisionedOnly",
                    BoolLower(a.on_provisioned_only))
        p3 == SetIf(Truthy(a.p), p2, "p", a.p)
        p4 == SetIf(Truthy(a.projects), p3, "projects", CommaJoin(a.projects))
        p5 == SetIf(Truthy(a.ps), p4, "ps", a.ps)
        p6 == SetIf(Truthy(a.q), p5, "q", a.q)
        p7 == SetIf(Truthy(a.qualifiers), p6, "qualifiers", CommaJoin(a.qualifiers))
        p8 == SetIf(Truthy(a.s), p7, "s", a.s)
        p9 == SetIf(Truthy(a.visibility), p8, "visibility", a.visibility)
    IN BaseAPI_get_model(self, <<"search">>, ProjectSearchResponse, p9, env)

ProjectsAPI_search_RawLists(self, a, env) ==
    LET p0 == EmptyDict
        p1 == SetIf(Truthy(a.analyzed_before), p0, "analyzedBefore", a.analyzed_before)
        p2 == SetIf(a.on_provisioned_only # PyNone, p1, "onProvisionedOnly",
                    BoolLower(a.on_provisioned_only))
        p3 == SetIf(Truthy(a.p), p2, "p", a.p)
        p4 == SetIf(Truthy(a.projects), p3, "projects", a.projects)
        p5 == SetIf(Truthy(a.ps), p4, "ps", a.ps)
        p6 == SetIf(Truthy(a.q), p5, "q", a.q)
        p7 == SetIf(Truthy(a.qualifiers), p6, "qualifiers", a.qualifiers)
        p8 == SetIf(Truthy(a.s), p7, "s", a.s)
        p9 == SetIf(Truthy(a.visibility), p8, "visibility", a.visibility)
    IN BaseAPI_get_model(self, <<"search">>, ProjectSearchResponse, p9, env)

\* ProjectsAPI.search; a is the record of its keyword arguments
ProjectsAPI_search(self, a, env) ==
    LET p0 == EmptyDict
        p1 == SetIf(Truthy(a.analyzed_before), p0, "analyzedBefore", a.analyzed_before)
        p2 == SetIf(a.on_provisioned_only # PyNone, p1, "onProvisionedOnly",
                    BoolLower(a.on_provisioned_only))
        p3 == SetIf(Truthy(a.p), p2, "p", a.p)
        p4 == SetIf(Truthy(a.projects), p3, "projects", CommaJoin(a.projects))
        p5 == SetIf(Truthy(a.ps), p4, "ps", a.ps)
        p6 == SetIf(Truthy(a.q), p5, "q", a.q)
        p7 == SetIf(Truthy(a.qualifiers), p6, "qualifiers", CommaJoin(a.qualifiers))
        p8 == SetIf(Truthy(a.s), p7, "s", a.s)
        p9 == SetIf(Truthy(a.visibility), p8, "visibility", a.visibility)
    IN BaseAPI_get_model(self, <<"search">>, ProjectSearchResponse, p9, env)

\* ProjectsAPI.delete: the result of _post is dropped, the method returns None
ProjectsAPI_delete(self, project, env) ==
    LET r == BaseAPI_post(self, <<"delete">>, PyNone, PyDict([project |-> project]), env)
    IN IF r.outcome.kind = "raise" THEN r
       ELSE [r EXCEPT !.outcome = Return(PyNone)]

\* ProjectsAPI.license_usage
ProjectsAPI_license_usage(self, env) ==
    BaseAPI_get_model(self, <<"license_usage">>, LicenseUsageResponse, PyNone, env)

\* SettingsAPI.set; a is the record of its arguments. The lists values and
\* field_values go into the form data as they are.
SettingsAPI_set(self, a, env) ==
    LET d0 == PyDict([key |-> a.key])
        d1 == SetIf(Truthy(a.branch), d0, "branch", a.branch)
        d2 == SetIf(Truthy(a.component), d1, "component", a.component)
        d3 == SetIf(Truthy(a.field_values), d2, "fieldValues", a.field_values)
        d4 == SetIf(Truthy(a.pull_request), d3, "pullRequest", a.pull_request)
        d5 == SetIf(Truthy(a.value), d4, "value", a.value)
        d6 == SetIf(Truthy(a.values), d5, "values", a.values)
        r == BaseAPI_post(self, <<"set">>, PyNone, d6, env)
    IN IF r.outcome.kind = "raise" THEN r
       ELSE [r EXCEPT !.outcome = Return(PyNone)]

UsersAPI_deactivate_NoUnwrap(self, login, anonymize, env) ==
    LET d0 == PyDict([login |-> login])
        d1 == SetIf(anonymize # PyNone, d0, "anonymize", BoolLower(anonymize))
        r == BaseAPI_post(self, <<"deactivate">>, PyNone, d1, env)
    IN IF r.outcome.kind = "raise" THEN r
       ELSE IF r.outcome.value.t # "dict"
            THEN [r EXCEPT !.outcome = Raise(OtherError("AttributeError"))]
       ELSE [r EXCEPT !.outcome = model_validate(User, r.outcome.value)]

\* UsersAPI.deactivate: the user is read from under "user" when the
\* response has that key, from the response itself otherwise
UsersAPI_deactivate(self, login, anonymize, env) ==
    LET d0 == PyDict([login |-> login])
        d1 == SetIf(anonymize # PyNone, d0, "anonymize", BoolLower(anonymize))
        r == BaseAPI_post(self, <<"deactivate">>, PyNone, d1, env)
    IN IF r.outcome.kind = "raise" THEN r
       ELSE IF r.outcome.value.t # "dict"
            THEN [r EXCEPT !.outcome = Raise(OtherError("AttributeError"))]
       ELSE [r EXCEPT !.outcome =
                model_validate(User, DictGet(r.outcome.value, "user", r.outcome.value))]

IssuesAPI_bulk_change_TruthyAssign(self, a, env) ==
    LET d0 == PyDict([issues |-> CommaJoin(a.issues)])
        d1 == SetIf(Truthy(a.add_tags), d0, "add_tags", CommaJoin(a.add_tags))
        d2 == SetIf(Truthy(a.assign), d1, "assign", a.assign)
        d3 == SetIf(Truthy(a.comment), d2, "comment", a.comment)
        d4 == SetIf(Truthy(a.do_transition), d3, "do_transition", a.do_transition)
        d5 == SetIf(Truthy(a.remove_tags), d4, "remove_tags", CommaJoin(a.remove_tags))
        d6 == SetIf(Truthy(a.set_severity), d5, "set_severity", a.set_severity)
        d7 == SetIf(Truthy(a.set_type), d6, "set_type", a.set_type)
    IN BaseAPI_post(self, <<"bulk_change">>, PyNone, d7, env)

\* IssuesAPI.bulk_change; a is the record of its arguments. assign is set
\* whenever it is not None, the empty string included.
IssuesAPI_bulk_change(self, a, env) ==
    LET d0 == PyDict([issues |-> CommaJoin(a.issues)])
        d1 == SetIf(Truthy(a.add_tags), d0, "add_tags", CommaJoin(a.add_tags))
        d2 == SetIf(a.assign # PyNone, d1, "assign", a.assign)
        d3 == SetIf(Truthy(a.comment), d2, "comment", a.comment)
        d4 == SetIf(Truthy(a.do_transition), d3, "do_transition", a.do_transition)
        d5 == SetIf(Truthy(a.remove_tags), d4, "remove_tags", CommaJoin(a.remove_tags))
        d6 == SetIf(Truthy(a.set_severity), d5, "set_severity", a.set_severity)
        d7 == SetIf(Truthy(a.set_type), d6, "set_type", a.set_type)
    IN BaseAPI_post(self, <<"bulk_change">>, PyNone, d7, env)

\* SourcesAPI.raw
SourcesAPI_raw(self, key, branch, pull_request, env) ==
    LET r == BaseAPI_get(self, <<"raw">>,
                         PyDict([key |-> key, branch |-> branch,
                                 pullRequest |-> pull_request]), env)
    IN IF r.outcome.kind = "raise" THEN r
       ELSE [r EXCEPT !.outcome = IF Truthy(r.outcome.value)
                                  THEN Return(Str(r.outcome.value))
                                  ELSE Return(PyStr(<<>>))]

\* QualityProfilesAPI.backup
QualityProfilesAPI_backup(self, language, quality_profile, env) ==
    LET r == BaseAPI_get(self, <<"backup">>,
                         PyDict([language |-> language,
                                 qualityProfile |-> quality_profile]), env)
    IN IF r.outcome.kind = "raise" THEN r
       ELSE [r EXCEPT !.outcome = Return(Str(r.outcome.value))]

-----------------------------------------------------------------------------
(* The Transport calls and the server behaviours that are enumerated.      *)

\* the call c made on the HTTPClient http with the dispatch meeting env
Invoke(http, c, env) ==
    CASE c.kind = "request" ->
            request(http, c.method, c.path, c.params, c.data, c.json_data, env)
      [] c.kind = "get" -> get(http, c.path, c.params, env)
      [] c.kind = "post" -> post(http, c.path, c.params, c.data, env)
      [] c.kind = "request_model" ->
            request_model(http, c.method, c.path, c.response_model, c.params,
                          c.data, env)
      [] c.kind = "get_model" ->
            get_model(http, c.path, c.response_model, c.params, env)
      [] c.kind = "post_model" ->
            post_model(http, c.path, c.response_model, c.params, c.data, env)
      [] c.kind = "applications.search" ->
            ApplicationsAPI_search(Namespace(ApplicationsApiPath, http),
                                   c.args.p, c.args.ps, c.args.q, env)
      [] c.kind = "projects.search" ->
            ProjectsAPI_search(Namespace(ProjectsApiPath, http), c.args, env)
      [] c.kind = "projects.delete" ->
            ProjectsAPI_delete(Namespace(ProjectsApiPath, http), c.args.project, env)
      [] c.kind = "projects.license_usage" ->
            ProjectsAPI_license_usage(Namespace(ProjectsApiPath, http), env)
      [] c.kind = "applications.create_branch" ->
            ApplicationsAPI_create_branch(Namespace(ApplicationsApiPath, http),
                                          c.args.application, c.args.branch,
                                          c.args.project, c.args.project_branch, env)
      [] c.kind = "settings.set" ->
            SettingsAPI_set(Namespace(SettingsApiPath, http), c.args, env)
      [] c.kind = "users.deactivate" ->
            UsersAPI_deactivate(Namespace(UsersApiPath, http), c.args.login,
                                c.args.anonymize, env)
      [] c.kind = "issues.bulk_change" ->
            IssuesAPI_bulk_change(Namespace(IssuesApiPath, http), c.args, env)
      [] c.kind = "sources.raw" ->
            SourcesAPI_raw(Namespace(SourcesApiPath, http), c.args.key,
                           c.args.branch, c.args.pull_request, env)
      [] c.kind = "qualityprofiles.backup" ->
            QualityProfilesAPI_backup(Namespace(QualityProfilesApiPath, http),
                                      c.args.language, c.args.quality_profile, env)

\* the text "x"
TextX == <<120>>

\* values of a query or form parameter: None, 0, "" and "x"
ParamValues == {PyNone, PyInt(0), PyStr(<<>>), PyStr(TextX)}
ParamKeys == {"q", "ps"}

\* every mapping over ParamKeys, and no mapping at all
Mappings ==
    {PyNone} \cup
    UNION {{PyDict(f) : f \in [K -> ParamValues]} : K \in SUBSET ParamKeys}

SmallMappings ==
    {PyNone, EmptyDict, PyDict([q |-> PyNone]), PyDict([q |-> PyStr(TextX), ps |-> PyNone])}

TestPath == <<"api", "test">>
Models == {ProjectSearchResponse, LicenseUsageResponse}

\* the calls of the entry points of HTTPClient, with every mapping for request
TransportCalls ==
    {[kind |-> "request", method |-> m, path |-> TestPath, params |-> ps,
      data |-> d, json_data |-> j] :
        m \in {"GET", "POST"}, ps \in Mappings, d \in Mappings,
        j \in {PyNone, PyDict([q |-> PyNone])}}
    \cup {[kind |-> "get", path |-> TestPath, params |-> ps] : ps \in Mappings}
    \cup {[kind |-> "post", path |-> TestPath, params |-> ps, data |-> d] :
            ps \in SmallMappings, d \in Mappings}
    \cup {[kind |-> "request_model", method |-> m, path |-> TestPath,
           response_model |-> rm, params |-> ps, data |-> d] :
            m \in {"GET", "POST"}, rm \in Models, ps \in SmallMappings,
            d \in SmallMappings}
    \cup {[kind |-> "get_model", path |-> TestPath, response_model |-> rm,
           params |-> ps] : rm \in Models, ps \in SmallMappings}
    \cup {[kind |-> "post_model", path |-> TestPath, response_model |-> rm,
           params |-> ps, data |-> d] :
            rm \in Models, ps \in SmallMappings, d \in SmallMappings}

\* the keyword arguments of projects.search with the values each may take:
\* None, a falsy value of its type, a truthy value of its type
StrArgs == {PyNone, PyStr(<<>>), PyStr(TextX)}
IntArgs == {PyNone, PyInt(0), PyInt(1)}
BoolArgs == {PyNone, PyBool(FALSE), PyBool(TRUE)}
ListArgs == {PyNone, PyList(<<>>), PyList(<<PyStr(<<97>>), PyStr(<<98>>)>>)}

ProjectsSearchArgs ==
    {a \in [analyzed_before : StrArgs, on_provisioned_only : BoolArgs, p : IntArgs,
            projects : ListArgs, ps : IntArgs, q : StrArgs, qualifiers : ListArgs,
            s : StrArgs, visibility : StrArgs] :
        Cardinality({k \in DOMAIN a : a[k] # PyNone}) <= MaxArgs}

\* the arguments of settings.set: the key, and at most MaxArgs of the
\* optional ones
SettingsSetArgs ==
    {a \in [key : {PyStr(TextX)}, branch : StrArgs, component : StrArgs,
            field_values : ListArgs, pull_request : StrArgs, value : StrArgs,
            values : ListArgs] :
        Cardinality({k \in DOMAIN a \ {"key"} : a[k] # PyNone}) <= MaxArgs}

\* the arguments of issues.bulk_change: the issue keys, and at most MaxArgs
\* of the optional ones
IssuesBulkChangeArgs ==
    {a \in [issues : ListArgs \ {PyNone}, add_tags : ListArgs, assign : StrArgs,
            comment : StrArgs, do_transition : StrArgs, remove_tags : ListArgs,
            set_severity : StrArgs, set_type : StrArgs] :
        Cardinality({k \in DOMAIN a \ {"issues"} : a[k] # PyNone}) <= MaxArgs}

\* the calls of the namespace methods
NamespaceCalls ==
    {[kind |-> "applications.search", args |-> a] :
        a \in [p : IntArgs, ps : IntArgs, q : StrArgs]}
    \cup {[kind |-> "projects.search", args |-> a] : a \in ProjectsSearchArgs}
    \cup {[kind |-> "projects.delete", args |-> [project |-> PyStr(TextX)]]}
    \cup {[kind |-> "projects.license_usage", args |-> EmptyDict]}
    \cup {[kind |-> "applications.create_branch", args |-> a] :
            a \in [application : {PyStr(TextX)}, branch : {PyStr(TextX)},
                   project : ListArgs \ {PyNone}, project_branch : ListArgs]}
    \cup {[kind |-> "settings.set", args |-> a] : a \in SettingsSetArgs}
    \cup {[kind |-> "users.deactivate", args |-> a] :
            a \in [login : {PyStr(TextX)}, anonymize : BoolArgs]}
    \cup {[kind |-> "issues.bulk_change", args |-> a] : a \in IssuesBulkChangeArgs}
    \cup {[kind |-> "sources.raw", args |-> a] :
            a \in [key : {PyStr(TextX)}, branch : StrArgs, pull_request : StrArgs]}
    \cup {[kind |-> "qualityprofiles.backup",
           args |-> [language |-> PyStr(TextX), quality_profile |-> PyStr(TextX)]]}

\* one or two calls of every entry point, to meet every server behaviour
SampleCalls ==
    {[kind |-> "request", method |-> "POST", path |-> TestPath,
      params |-> PyDict([q |-> PyStr(TextX), ps |-> PyNone]),
      data |-> PyDict([q |-> PyNone]), json_data |-> PyNone],
     [kind |-> "get", path |-> TestPath, params |-> PyNone],
     [kind |-> "post", path |-> TestPath, params |-> PyNone, data |-> EmptyDict],
     [kind |-> "request_model", method |-> "GET", path |-> TestPath,
      response_model |-> ProjectSearchResponse, params |-> PyNone, data |-> PyNone],
     [kind |-> "request_model", method |-> "GET", path |-> TestPath,
      response_model |-> LicenseUsageResponse, params |-> PyNone, data |-> PyNone],
     [kind |-> "get_model", path |-> TestPath,
      response_model |-> ProjectSearchResponse, params |-> PyNone],
     [kind |-> "get_model", path |-> TestPath,
      response_model |-> LicenseUsageResponse, params |-> PyNone],
     [kind |-> "post_model", path |-> TestPath,
      response_model |-> ProjectSearchResponse, params |-> PyNone, data |-> PyNone],
     [kind |-> "post_model", path |-> TestPath,
      response_model |-> LicenseUsageResponse, params |-> PyNone, data |-> PyNone],
     [kind |-> "applications.search",
      args |-> [p |-> PyNone, ps |-> PyNone, q |-> PyNone]],
     [kind |-> "projects.search",
      args |-> [analyzed_before |-> PyNone, on_provisioned_only |-> PyNone,
                p |-> PyNone, projects |-> PyNone, ps |-> PyNone, q |-> PyNone,
                qualifiers |-> PyNone, s |-> PyNone, visibility |-> PyNone]],
     [kind |-> "projects.delete", args |-> [project |-> PyStr(TextX)]],
     [kind |-> "projects.license_usage", args |-> EmptyDict],
     [kind |-> "applications.create_branch",
      args |-> [application |-> PyStr(TextX), branch |-> PyStr(TextX),
                project |-> PyList(<<PyStr(<<97>>), PyStr(<<98>>)>>),
                project_branch |-> PyNone]],
     [kind |-> "settings.set",
      args |-> [key |-> PyStr(TextX), branch |-> PyNone, component |-> PyNone,
                field_values |-> PyNone, pull_request |-> PyNone,
                value |-> PyStr(TextX), values |-> PyNone]],
     [kind |-> "users.deactivate",
      args |-> [login |-> PyStr(TextX), anonymize |-> PyBool(FALSE)]],
     [kind |-> "issues.bulk_change",
      args |-> [issues |-> PyList(<<PyStr(<<97>>), PyStr(<<98>>)>>),
                add_tags |-> PyNone, assign |-> PyStr(<<>>), comment |-> PyNone,
                do_transition |-> PyNone, remove_tags |-> PyNone,
                set_severity |-> PyNone, set_type |-> PyNone]],
     [kind |-> "sources.raw",
      args |-> [key |-> PyStr(TextX), branch |-> PyNone, pull_request |-> PyNone]],
     [kind |-> "qualityprofiles.backup",
      args |-> [language |-> PyStr(TextX), quality_profile |-> PyStr(TextX)]]}

\* the messages of the enumerated sub-errors: "m", "n", and a null msg
Msgs == {PyStr(<<109>>), PyStr(<<110>>), PyNone}

\* an entry of an errors list: {"msg": X}, {} or a bare string
ErrorEntries ==
    {PyDict([msg |-> m]) : m \in Msgs} \cup {EmptyDict, PyStr(<<101>>)}

\* the value under "errors": a list of at most MaxErrors entries, or null
ErrorsValues == {PyList(l) : l \in SeqsUpTo(ErrorEntries, MaxErrors)} \cup {PyNone}

\* the value under "paging": a well-formed Paging or a string
PagingValues ==
    {PyDict([pageIndex |-> PyInt(1), pageSize |-> PyInt(1), total |-> PyInt(1)]),
     PyStr(TextX)}

\* the text " x": "x" after a space
TextSpaceX == <<32, 120>>

\* a user as the server sends it: with login "x", " x" or "y", with or
\* without a name, with a key that is no field of User; or without login
UserObjects ==
    {PyDict([login |-> PyStr(l)]) : l \in {TextX, TextSpaceX, <<121>>}}
    \cup {PyDict([login |-> PyStr(TextX), name |-> PyStr(TextX)]),
          PyDict([login |-> PyStr(TextX), extra |-> PyStr(TextX)]),
          PyDict([name |-> PyStr(TextX)])}

\* the JSON objects of the user endpoints: a user under "user", a user
\* itself, a user with another user under "user", and null under "user"
UserBodies ==
    UserObjects
    \cup {PyDict([user |-> u]) : u \in UserObjects \cup {PyNone}}
    \cup {PyDict([user |-> PyDict([login |-> PyStr(<<121>>)]), login |-> PyStr(TextX)])}

\* the JSON objects of license_usage: the count under its wire key, under
\* its field name, under both, and next to a key that is no field
LicenseBodies ==
    {PyDict([linesOfCode |-> PyInt(7)]),
     PyDict([lines_of_code |-> PyInt(8)]),
     PyDict([linesOfCode |-> PyInt(7), lines_of_code |-> PyInt(8)]),
     PyDict([linesOfCode |-> PyInt(7), extra |-> PyStr(TextX)]),
     PyDict([linesOfCode |-> PyNone]),
     PyDict([linesOfCode |-> PyStr(TextX)])}

\* the JSON objects: "errors" and "paging" each present or not, and the
\* objects of the user and license endpoints
JsonObjects ==
    {EmptyDict}
    \cup {PyDict([errors |-> e]) : e \in ErrorsValues}
    \cup {PyDict([paging |-> g]) : g \in PagingValues}
    \cup {PyDict([errors |-> e, paging |-> g]) : e \in ErrorsValues, g \in PagingValues}
    \cup UserBodies
    \cup LicenseBodies

\* the bodies: none, a text that is not JSON, or a JSON value (an object,
\* null or an array)
Bodies ==
    {[b |-> "empty"], [b |-> "text", text |-> TextX]}
    \cup {[b |-> "json", value |-> v] : v \in JsonObjects \cup {PyNone, PyList(<<>>)}}

Statuses == {199, 200, 204, 299, 300, 400, 401, 403, 404, 500}

Responses ==
    {[fault |-> "none", response |-> [status_code |-> st, body |-> b]] :
        st \in Statuses, b \in Bodies}

\* the transport faults, by the except clause of request that catches them,
\* each with the text str(e) of the httpx exception: "x" or ""
Faults ==
    {[fault |-> f, text |-> tx] :
        f \in {"ConnectError", "TimeoutException", "HTTPError"}, tx \in {TextX, <<>>}}

Envs == Responses \cup Faults

\* a few server behaviours, to meet every call
SampleEnvs ==
    {[fault |-> "none",
      response |-> [status_code |-> 200,
                    body |-> [b |-> "json",
                              value |-> PyDict([paging |->
                                  PyDict([pageIndex |-> PyInt(1), pageSize |-> PyInt(1),
                                          total |-> PyInt(1)])])]]],
     [fault |-> "none", response |-> [status_code |-> 204, body |-> [b |-> "empty"]]],
     [fault |-> "none",
      response |-> [status_code |-> 400,
                    body |-> [b |-> "json",
                              value |-> PyDict([errors |->
                                  PyList(<<PyDict([msg |-> PyStr(<<109>>)])>>)])]]]}

\* the client every call of SpecHttp is made through
HttpSpecCtor ==
    [path |-> "SonarQubeClient", base_url |-> <<104, 47>>, token |-> PyStr(<<97>>),
     username |-> PyNone, password |-> PyNone, auth |-> PyNone]

\* the namespaces whose accessors are modelled
AccessorNames == <<"applications", "projects", "issues", "users", "rules">>

-----------------------------------------------------------------------------
(* Specification SpecHttp: one call through a constructed client, meeting  *)
(* one behaviour of the server.                                            *)

InitHttp ==
    /\ pc = "call"
    /\ ctor = HttpSpecCtor
    /\ built = SonarQubeClient(ctor.base_url, ctor.token, ctor.username,
                               ctor.password, ctor.auth, DEFAULT_TIMEOUT)
    /\ headers = PyNone
    /\ client = built.obj
    /\ slots = NoSlots
    /\ nextId = 1
    /\ lastRead = NoRead
    /\ lastClose = NoClose
    /\ scope = NoScope
    /\ threads = NoThreads
    /\ \/ call \in TransportCalls \cup NamespaceCalls /\ response \in SampleEnvs
       \/ call \in SampleCalls /\ response \in Envs
    /\ sent = NoCall
    /\ outcome = NoCall
    /\ requests = 0
    /\ dispatches = 0

\* the pending call is of the given kind and runs to its end
Complete(kind) ==
    /\ pc = "call"
    /\ call.kind = kind
    /\ LET r == Invoke(client.http_client, call, response)
       IN /\ sent' = r.sent
          /\ outcome' = r.outcome
          /\ requests' = r.requests
          /\ dispatches' = r.dispatches
    /\ pc' = "done"
    /\ UNCHANGED <<authVars, clientVars, call, response>>

Request == Complete("request")
Get == Complete("get")
Post == Complete("post")
RequestModel == Complete("request_model")
GetModel == Complete("get_model")
PostModel == Complete("post_model")
ApplicationsSearch == Complete("applications.search")
ProjectsSearch == Complete("projects.search")
ProjectsDelete == Complete("projects.delete")
ProjectsLicenseUsage == Complete("projects.license_usage")
ApplicationsCreateBranch == Complete("applications.create_branch")
SettingsSet == Complete("settings.set")
UsersDeactivate == Complete("users.deactivate")
SourcesRaw == Complete("sources.raw")
IssuesBulkChange == Complete("issues.bulk_change")
QualityProfilesBackup == Complete("qualityprofiles.backup")

NextHttp ==
    \/ Request
    \/ Get
    \/ Post
    \/ RequestModel
    \/ GetModel
    \/ PostModel
    \/ ApplicationsSearch
    \/ ProjectsSearch
    \/ ProjectsDelete
    \/ ProjectsLicenseUsage
    \/ ApplicationsCreateBranch
    \/ SettingsSet
    \/ UsersDeactivate
    \/ SourcesRaw
    \/ QualityProfilesBackup
    \/ IssuesBulkChange

SpecHttp == InitHttp /\ [][NextHttp]_vars

-----------------------------------------------------------------------------
(* Claims about the request pipeline, checked under SpecHttp.              *)

\* the call went through request, get or post and has ended
PlainCallDone == pc = "done" /\ call.kind \in {"request", "get", "post"}

\* the dispatch met a response of the server (no transport fault)
Answered == response.fault = "none"

\* the body of the response is exactly {"errors": [{"msg": X}]}
IsSingleError(body, X) ==
    /\ body.b = "json"
    /\ body.value = PyDict([errors |-> PyList(<<PyDict([msg |-> X])>>)])

\* the exception class the claim gives for a status
ExpectedClass(status) ==
    CASE status = 401 -> "SonarQubeAuthenticationError"
      [] status = 403 -> "SonarQubePermissionError"
      [] status = 404 -> "SonarQubeNotFoundError"
      [] status = 400 -> "SonarQubeValidationError"
      [] OTHER -> "SonarQubeAPIError"

\* C1: a non-2xx response whose body is {"errors":[{"msg":X}]} makes request
\* raise the class of its status (401 authentication, 403 permission, 404
\* not found, 400 validation, anything else the plain API error) with
\* message X and the status of the response as status_code.
C1_StatusMapping ==
    (PlainCallDone /\ Answered) =>
        \A X \in Msgs :
            (/\ ~(response.response.status_code \in 200..299)
             /\ IsSingleError(response.response.body, X)) =>
                /\ outcome.kind = "raise"
                /\ outcome.exc.t = ExpectedClass(response.response.status_code)
                /\ outcome.exc.message = X
                /\ outcome.exc.status_code = response.response.status_code

\* a 403 with {"errors":[{"msg":"m"}]} raised the permission error
C1_Witness ==
    /\ PlainCallDone
    /\ Answered
    /\ response.response.status_code = 403
    /\ IsSingleError(response.response.body, PyStr(<<109>>))
    /\ outcome.kind = "raise"
    /\ outcome.exc.t = "SonarQubePermissionError"

\* the mapping that was sent holds exactly the entries of the given mapping
\* whose value is not None
IsNonNonePart(given, sentm) ==
    IF given = PyNone THEN sentm = PyNone
    ELSE /\ sentm.t = "dict"
         /\ \A k \in DOMAIN given.d :
                IF given.d[k] = PyNone THEN k \notin DOMAIN sentm.d
                ELSE k \in DOMAIN sentm.d /\ sentm.d[k] = given.d[k]
         /\ DOMAIN sentm.d \subseteq DOMAIN given.d

\* the form data a plain call was given (get takes none)
GivenData == IF call.kind = "get" THEN PyNone ELSE call.data

\* C2: request hands to the dispatch, as query parameters and as form data,
\* exactly the entries of params and data whose value is not None.
C2_NoneEntriesDropped ==
    PlainCallDone =>
        /\ IsNonNonePart(call.params, sent.params)
        /\ IsNonNonePart(GivenData, sent.data)

\* a request whose params hold a None, a 0 and whose data holds a None and ""
C2_Witness ==
    /\ PlainCallDone
    /\ call.kind = "request"
    /\ call.params = PyDict([q |-> PyNone, ps |-> PyInt(0)])
    /\ call.data = PyDict([q |-> PyStr(<<>>), ps |-> PyNone])
    /\ sent.params = PyDict([ps |-> PyInt(0)])
    /\ sent.data = PyDict([q |-> PyStr(<<>>)])

\* the wire name of each keyword argument of a namespace method
WireName(kind) ==
    IF kind = "applications.search" THEN [p |-> "p", ps |-> "ps", q |-> "q"]
    ELSE IF kind = "applications.create_branch"
    THEN [application |-> "application", branch |-> "branch", project |-> "project",
          project_branch |-> "projectBranch"]
    ELSE IF kind = "settings.set"
    THEN [key |-> "key", branch |-> "branch", component |-> "component",
          field_values |-> "fieldValues", pull_request |-> "pullRequest",
          value |-> "value", values |-> "values"]
    ELSE IF kind = "users.deactivate"
    THEN [login |-> "login", anonymize |-> "anonymize"]
    ELSE IF kind = "issues.bulk_change"
    THEN [issues |-> "issues", add_tags |-> "add_tags", assign |-> "assign",
          comment |-> "comment", do_transition |-> "do_transition",
          remove_tags |-> "remove_tags", set_severity |-> "set_severity",
          set_type |-> "set_type"]
    ELSE IF kind = "sources.raw"
    THEN [key |-> "key", branch |-> "branch", pull_request |-> "pullRequest"]
    ELSE IF kind = "qualityprofiles.backup"
    THEN [language |-> "language", quality_profile |-> "qualityProfile"]
    ELSE [analyzed_before |-> "analyzedBefore",
          on_provisioned_only |-> "onProvisionedOnly",
          p |-> "p", projects |-> "projects", ps |-> "ps", q |-> "q",
          qualifiers |-> "qualifiers", s |-> "s", visibility |-> "visibility"]

\* the keys of a sent mapping
SentKeys(m) == IF m.t = "dict" THEN DOMAIN m.d ELSE {}

\* C3: for a namespace method, the wire parameter of every keyword argument
\* left as None is in neither the query string nor the form body that is
\* sent, whether the method skips the key or hands None to the Transport.
C3_NoneArgumentsNotSent ==
    (pc = "done" /\ call.kind \in {"applications.search", "projects.search"}) =>
        \A arg \in DOMAIN call.args :
            call.args[arg] = PyNone =>
                WireName(call.kind)[arg] \notin SentKeys(sent.params) \cup SentKeys(sent.data)

\* applications.search(p=1, ps=None, q=None) sent p alone
C3_Witness ==
    /\ pc = "done"
    /\ call.kind = "applications.search"
    /\ call.args = [p |-> PyInt(1), ps |-> PyNone, q |-> PyNone]
    /\ sent.params = PyDict([p |-> PyInt(1)])

\* the server answered 204 with an empty body
Empty204 ==
    /\ Answered
    /\ response.response.status_code = 204
    /\ response.response.body.b = "empty"

\* C4 as stated: an empty-body 204 gives every call (request, get, post,
\* request_model, get_model, post_model and the namespace methods) a result
\* that is neither an error nor null.
C4_Original ==
    (pc = "done" /\ Empty204) => (outcome.kind = "return" /\ outcome.value # PyNone)

\* the model a typed call validates its response into
ModelOf(c) ==
    CASE c.kind \in {"request_model", "get_model", "post_model"} -> c.response_model
      [] c.kind = "applications.search" -> ApplicationSearchResponse
      [] c.kind = "projects.search" -> ProjectSearchResponse
      [] c.kind = "projects.license_usage" -> LicenseUsageResponse
      [] c.kind = "users.deactivate" -> User

\* the instance of a model whose fields all hold their defaults
DefaultInstance(model) ==
    [t |-> "model",
     cls |-> model.name,
     d |-> [n \in {f.name : f \in model.fields} |->
              (CHOOSE f \in model.fields : f.name = n).default]]

\* the call is one of a namespace method declared to return text
TextCall == call.kind \in {"sources.raw", "qualityprofiles.backup"}

\* C4 as amended: on an empty-body 204, request, get and post return the
\* empty mapping {}; the typed calls validate {} into their model, so they
\* return the all-defaults instance when the model has no required field
\* and raise pydantic's ValidationError when it has one; a namespace method
\* declared to return nothing returns None.
C4_Empty204 ==
    (pc = "done" /\ Empty204 /\ ~TextCall) =>
        IF call.kind \in {"request", "get", "post", "issues.bulk_change"}
        THEN outcome = Return(EmptyDict)
        ELSE IF call.kind \in {"projects.delete", "applications.create_branch",
                               "settings.set"}
             THEN outcome = Return(PyNone)
        ELSE IF \E f \in ModelOf(call).fields : f.required
             THEN outcome = Raise(OtherError("ValidationError"))
             ELSE outcome = Return(DefaultInstance(ModelOf(call)))

\* a get_model into a model without required fields met the empty 204
C4_Witness ==
    /\ pc = "done"
    /\ Empty204
    /\ call.kind = "get_model"
    /\ call.response_model = LicenseUsageResponse
    /\ outcome.kind = "return"

\* C5: a 2xx response other than 204 whose body is not JSON makes request
\* return the empty mapping {} instead of raising.
C5_UnparseableSuccess ==
    (/\ PlainCallDone
     /\ Answered
     /\ response.response.status_code \in 200..299
     /\ response.response.status_code # 204
     /\ response.response.body.b # "json") => outcome = Return(EmptyDict)

\* a 200 with a text body that is not JSON returned {}
C5_Witness ==
    /\ PlainCallDone
    /\ Answered
    /\ response.response.status_code = 200
    /\ response.response.body = [b |-> "text", text |-> TextX]
    /\ outcome = Return(EmptyDict)

\* the text sub occurs in the text s
Contains(s, sub) ==
    \E i \in 1..(Len(s) - Len(sub) + 1) : SubSeq(s, i, i + Len(sub) - 1) = sub

\* the dispatch met a transport fault
Faulted == response.fault # "none"

\* the call ended by raising SonarQubeConnectionError with the text of the
\* cause as details, and no classification of a response took place
RaisedConnectionError ==
    /\ outcome.kind = "raise"
    /\ outcome.exc.t = "SonarQubeConnectionError"
    /\ outcome.exc.details = PyStr(response.text)
    /\ "status_code" \notin DOMAIN outcome.exc

\* the message of the raised error names the base URL / the timeout
NamesBaseUrl == Contains(outcome.exc.message.s, client.http_client.base_url)
NamesTimeout == Contains(outcome.exc.message.s, Digits(client.http_client.timeout))

\* C11 as stated: every transport fault during the dispatch makes the call
\* raise SonarQubeConnectionError whose message names the base URL or the
\* timeout and whose details are the text of the cause.
C11_Original ==
    (pc = "done" /\ Faulted) =>
        /\ RaisedConnectionError
        /\ NamesBaseUrl \/ NamesTimeout

\* C11 as amended: every transport fault during the dispatch makes the call
\* raise SonarQubeConnectionError whose details are the text of the cause,
\* after one dispatch and without classifying any response; the message
\* names the base URL for a connection failure, the timeout for a timeout,
\* and is the fixed text "HTTP error occurred", naming neither, for any
\* other transport exception.
C11_ConnectionErrors ==
    (pc = "done" /\ Faulted) =>
        /\ RaisedConnectionError
        /\ dispatches = 1
        /\ response.fault = "ConnectError" => NamesBaseUrl
        /\ response.fault = "TimeoutException" => NamesTimeout
        /\ response.fault = "HTTPError" =>
            /\ outcome.exc.message = PyStr(HttpErrorOccurred)
            /\ ~NamesBaseUrl
            /\ ~NamesTimeout

\* a get_model timed out and raised the connection error naming the timeout
C11_Witness ==
    /\ pc = "done"
    /\ call.kind = "get_model"
    /\ response = [fault |-> "TimeoutException", text |-> TextX]
    /\ RaisedConnectionError
    /\ NamesTimeout

\* the call is one of a namespace method
NamespaceCall ==
    call.kind \in {"applications.search", "applications.create_branch",
                   "projects.search", "projects.delete", "projects.license_usage",
                   "settings.set", "users.deactivate", "sources.raw",
                   "qualityprofiles.backup", "issues.bulk_change"}

ErrorAnswer == Answered /\ ~(response.response.status_code \in 200..299)

\* the body is a JSON object whose errors list has a first entry with a msg
FirstMsgExtractable(body) ==
    /\ body.b = "json"
    /\ body.value.t = "dict"
    /\ "errors" \in DOMAIN body.value.d
    /\ body.value.d["errors"].t = "list"
    /\ body.value.d["errors"].l # <<>>
    /\ body.value.d["errors"].l[1].t = "dict"
    /\ "msg" \in DOMAIN body.value.d["errors"].l[1].d

\* C13: for a non-2xx response the call raises an error whose message is
\* the msg of the first entry of the body's errors list when there is one;
\* otherwise the raw text of the response when it has any (the text of a
\* JSON document is never "Unknown error"); and "Unknown error" only when
\* the body is empty.
C13_FallbackChain ==
    (PlainCallDone /\ ErrorAnswer) =>
        LET body == response.response.body
        IN /\ outcome.kind = "raise"
           /\ "message" \in DOMAIN outcome.exc
           /\ IF FirstMsgExtractable(body)
              THEN outcome.exc.message = body.value.d["errors"].l[1].d["msg"]
              ELSE IF body.b = "text" THEN outcome.exc.message = PyStr(body.text)
              ELSE IF body.b = "json" THEN outcome.exc.message # UnknownError
              ELSE outcome.exc.message = UnknownError

\* the errors list of the body: every entry an object, the first with a msg
ListsSubErrors(body) ==
    /\ FirstMsgExtractable(body)
    /\ \A i \in 1..Len(body.value.d["errors"].l) :
            body.value.d["errors"].l[i].t = "dict"

\* C14: a 400 whose body lists n >= 1 sub-errors raises
\* SonarQubeValidationError carrying all n sub-errors in server order in
\* errors, with the msg of the first one as message; a status other than
\* 400, 401, 403 and 404 does the same with SonarQubeAPIError.
C14_FullErrorList ==
    (/\ pc = "done"
     /\ ErrorAnswer
     /\ response.response.status_code \notin {401, 403, 404}
     /\ ListsSubErrors(response.response.body)) =>
        LET listed == response.response.body.value.d["errors"]
        IN /\ outcome.kind = "raise"
           /\ outcome.exc.t = IF response.response.status_code = 400
                              THEN "SonarQubeValidationError"
                              ELSE "SonarQubeAPIError"
           /\ outcome.exc.errors = listed
           /\ outcome.exc.message = listed.l[1].d["msg"]

\* a 400 listing the sub-errors "m" and "n" raised with both and message "m"
C14_Witness ==
    /\ pc = "done"
    /\ Answered
    /\ response.response.status_code = 400
    /\ response.response.body.b = "json"
    /\ response.response.body.value =
         PyDict([errors |-> PyList(<<PyDict([msg |-> PyStr(<<109>>)]),
                                     PyDict([msg |-> PyStr(<<110>>)])>>)])
    /\ outcome.kind = "raise"
    /\ outcome.exc.message = PyStr(<<109>>)
    /\ Len(outcome.exc.errors.l) = 2

\* the call went through one of the six entry points of the Transport
TransportCallDone ==
    /\ pc = "done"
    /\ call.kind \in {"request", "get", "post", "request_model", "get_model",
                      "post_model"}

\* C15: whatever a Transport call raises is an instance of SonarQubeError:
\* SonarQubeAPIError or a subclass of it when the server answered,
\* SonarQubeConnectionError when the dispatch failed.
C15_CommonBase ==
    (TransportCallDone /\ outcome.kind = "raise") =>
        /\ issubclass(outcome.exc.t, "SonarQubeError")
        /\ Answered => issubclass(outcome.exc.t, "SonarQubeAPIError")
        /\ Faulted => outcome.exc.t = "SonarQubeConnectionError"

\* the call went through request_model, get_model or post_model
TypedCallDone ==
    pc = "done" /\ call.kind \in {"request_model", "get_model", "post_model"}

\* what request does with the arguments of the typed call under study
PlainFlow ==
    request(client.http_client,
            IF call.kind = "request_model" THEN call.method
            ELSE IF call.kind = "get_model" THEN "GET" ELSE "POST",
            call.path, call.params,
            IF call.kind = "get_model" THEN PyNone ELSE call.data,
            PyNone, response)

\* the value holds the field under its alias or its name, with the type of
\* the field (None allowed for an optional one)
RECURSIVE FieldWellTyped(_, _)
FieldWellTyped(f, v) ==
    \/ f.optional /\ v = PyNone
    \/ f.type = "Paging" /\ v.t = "dict" /\
         \A g \in Paging.fields :
            \E k \in {g.alias, g.name} \cap DOMAIN v.d : FieldWellTyped(g, v.d[k])
    \/ f.type # "Paging" /\ v.t = f.type

\* no required field of the model is missing from the JSON object and no
\* field that is present is mistyped
Conforms(model, v) ==
    /\ v.t = "dict"
    /\ \A f \in model.fields :
        LET keys == {f.alias, f.name} \cap DOMAIN v.d
        IN IF keys = {} THEN ~f.required
           ELSE FieldWellTyped(f, v.d[IF f.alias \in keys THEN f.alias ELSE f.name])

ListArguments(kind) ==
    CASE kind = "projects.search" -> {"projects", "qualifiers"}
      [] kind = "applications.create_branch" -> {"project", "project_branch"}
      [] kind = "settings.set" -> {"field_values", "values"}
      [] kind = "issues.bulk_change" -> {"issues", "add_tags", "remove_tags"}
      [] OTHER -> {}

\* the boolean-valued arguments of a namespace method
BoolArguments(kind) ==
    CASE kind = "projects.search" -> {"on_provisioned_only"}
      [] kind = "users.deactivate" -> {"anonymize"}
      [] OTHER -> {}

\* the value sent for a keyword argument of the call, in the query string
\* or in the form body; None when its wire parameter is not sent
WireValue(arg) ==
    LET k == WireName(call.kind)[arg]
    IN IF k \in SentKeys(sent.params) THEN sent.params.d[k]
       ELSE IF k \in SentKeys(sent.data) THEN sent.data.d[k]
       ELSE PyNone

\* a list argument that holds at least one item
GivenList(arg) == call.args[arg].t = "list" /\ call.args[arg].l # <<>>

\* C17 as stated: every list-valued argument of every namespace method is
\* sent as one string holding its items joined by commas in argument order.
C17_Original ==
    (pc = "done" /\ NamespaceCall) =>
        \A arg \in ListArguments(call.kind) :
            GivenList(arg) => WireValue(arg) = CommaJoin(call.args[arg])

\* the namespace methods that hand their lists to the Transport unjoined
RepeatedParameterMethods == {"applications.create_branch", "settings.set"}

\* C17 as amended: a list-valued argument is sent as one string holding its
\* items joined by commas in argument order, except in the methods whose
\* lists the server reads as repeated parameters (create_branch and
\* update_branch of applications, settings.set, users.create and
\* users.update), which hand the list itself to the Transport.
C17_ListArguments ==
    (pc = "done" /\ NamespaceCall) =>
        \A arg \in ListArguments(call.kind) :
            GivenList(arg) =>
                IF call.kind \in RepeatedParameterMethods
                THEN WireValue(arg) = call.args[arg]
                ELSE /\ WireValue(arg) = CommaJoin(call.args[arg])
                     /\ WireValue(arg).t = "str"

\* projects.search(projects=["a","b"]) sent projects="a,b"
C17_Witness ==
    /\ pc = "done"
    /\ call.kind = "projects.search"
    /\ call.args.projects = PyList(<<PyStr(<<97>>), PyStr(<<98>>)>>)
    /\ sent.params.d["projects"] = PyStr(<<97, 44, 98>>)

\* C18: a boolean argument of a namespace method is sent as "true" when it
\* is True and as "false" when it is False, and its parameter is left out
\* only when it is None.
C18_BoolArguments ==
    (pc = "done" /\ NamespaceCall) =>
        \A arg \in BoolArguments(call.kind) :
            LET k == WireName(call.kind)[arg]
                isSent == k \in SentKeys(sent.params) \cup SentKeys(sent.data)
            IN /\ call.args[arg] = PyBool(TRUE) =>
                    isSent /\ WireValue(arg) = PyStr(<<116, 114, 117, 101>>)
               /\ call.args[arg] = PyBool(FALSE) =>
                    isSent /\ WireValue(arg) = PyStr(<<102, 97, 108, 115, 101>>)
               /\ call.args[arg] = PyNone => ~isSent

\* projects.search(on_provisioned_only=False) sent onProvisionedOnly="false"
C18_Witness ==
    /\ pc = "done"
    /\ call.kind = "projects.search"
    /\ call.args.on_provisioned_only = PyBool(FALSE)
    /\ sent.params.d["onProvisionedOnly"] = PyStr(<<102, 97, 108, 115, 101>>)

\* the mapping request returns for the 2xx response of the call under study
Parsed ==
    IF response.response.status_code = 204 \/ response.response.body.b # "json"
    THEN EmptyDict
    ELSE response.response.body.value

\* the call validates a response and got a 2xx answer holding a JSON object
ValidatingCallAnswered ==
    /\ pc = "done"
    /\ call.kind \in {"request_model", "get_model", "post_model",
                      "applications.search", "projects.search",
                      "projects.license_usage", "users.deactivate"}
    /\ Answered
    /\ is_success(response.response)
    /\ Parsed.t = "dict"

\* the JSON value the call validates: for an unwrapping method the value
\* under its key when the response has that key
Validated ==
    IF call.kind = "users.deactivate" /\ "user" \in DOMAIN Parsed.d
    THEN Parsed.d["user"]
    ELSE Parsed

\* the value the JSON object v gives for the field f: under the wire key
\* or, failing that, under the field name
Given(f, v) == IF f.alias \in DOMAIN v.d THEN v.d[f.alias] ELSE v.d[f.name]

\* the field f is given in the JSON object v
IsGiven(f, v) == {f.alias, f.name} \cap DOMAIN v.d # {}

\* C21: an unwrapping method (users.deactivate) returns the User validated
\* from the value under "user" when the response mapping has that key and
\* from the whole response mapping when it has not; when that value is not
\* a valid User the validation error is raised.
C21_NestedKeyUnwrap ==
    (ValidatingCallAnswered /\ call.kind = "users.deactivate") =>
        LET chosen == IF "user" \in DOMAIN Parsed.d THEN Parsed.d["user"] ELSE Parsed
        IN IF Conforms(User, chosen)
           THEN /\ outcome.kind = "return"
                /\ outcome.value.t = "model"
                /\ outcome.value.cls = "User"
                /\ outcome.value.d["login"] = PyStr(strip(chosen.d["login"].s))
           ELSE outcome = Raise(OtherError("ValidationError"))

\* the response {"user": {"login": "y"}, "login": "x"} gave the user "y"
C21_Witness ==
    /\ ValidatingCallAnswered
    /\ call.kind = "users.deactivate"
    /\ Parsed = PyDict([user |-> PyDict([login |-> PyStr(<<121>>)]),
                        login |-> PyStr(TextX)])
    /\ outcome.kind = "return"
    /\ outcome.value.d["login"] = PyStr(<<121>>)

\* C22 as stated: a JSON object that has every required field well typed
\* validates into an instance that has exactly the fields of the model
\* under their snake_case names, each with the very value given under its
\* wire key (a nested model for a nested object) or with its declared
\* default when it is not given; keys that are no field are ignored.
C22_Original ==
    (ValidatingCallAnswered /\ Conforms(ModelOf(call), Validated)) =>
        /\ outcome.kind = "return"
        /\ outcome.value.t = "model"
        /\ DOMAIN outcome.value.d = {f.name : f \in ModelOf(call).fields}
        /\ \A f \in ModelOf(call).fields :
            LET exposed == outcome.value.d[f.name]
            IN IF ~IsGiven(f, Validated) THEN exposed = f.default
               ELSE IF Given(f, Validated).t = "dict" THEN exposed.t = "model"
               ELSE exposed = Given(f, Validated)

\* C22 as amended: the same, except that a string value is exposed without
\* its leading and trailing whitespace, and that a field is also read from
\* under its snake_case name when its wire key is absent.
C22_AliasesAndExtras ==
    (ValidatingCallAnswered /\ Conforms(ModelOf(call), Validated)) =>
        /\ outcome.kind = "return"
        /\ outcome.value.t = "model"
        /\ DOMAIN outcome.value.d = {f.name : f \in ModelOf(call).fields}
        /\ \A f \in ModelOf(call).fields :
            LET exposed == outcome.value.d[f.name]
            IN IF ~IsGiven(f, Validated) THEN exposed = f.default
               ELSE IF Given(f, Validated).t = "dict" THEN exposed.t = "model"
               ELSE IF Given(f, Validated).t = "str"
                    THEN exposed = PyStr(strip(Given(f, Validated).s))
               ELSE exposed = Given(f, Validated)

\* {"linesOfCode": 7, "extra": "x"} gave lines_of_code = 7 and nothing else
C22_Witness ==
    /\ ValidatingCallAnswered
    /\ call.kind = "get_model"
    /\ Parsed = PyDict([linesOfCode |-> PyInt(7), extra |-> PyStr(TextX)])
    /\ outcome.kind = "return"
    /\ outcome.value.d = [lines_of_code |-> PyInt(7)]

\* the call raised SonarQubeAPIError or a subclass for a non-2xx answer
RaisedApiError ==
    /\ pc = "done"
    /\ ErrorAnswer
    /\ outcome.kind = "raise"
    /\ issubclass(outcome.exc.t, "SonarQubeAPIError")

\* C27: the error raised for a 401, 403 or 404 has an empty errors list,
\* whatever sub-errors the body lists; the body, sub-errors included, is its
\* details. The error raised for any other non-2xx status carries the
\* errors list of the body in errors.
C27_ErrorsOnlyOn400AndGeneric ==
    RaisedApiError =>
        LET body == response.response.body
        IN IF response.response.status_code \in {401, 403, 404}
           THEN /\ outcome.exc.errors = PyList(<<>>)
                /\ body.b = "json" => outcome.exc.details = body.value
           ELSE (/\ body.b = "json"
                 /\ "errors" \in DOMAIN body.value.d
                 /\ Truthy(body.value.d["errors"])) =>
                    outcome.exc.errors = body.value.d["errors"]

\* a 404 listing two sub-errors raised with none in errors and both in
\* details
C27_Witness ==
    /\ RaisedApiError
    /\ response.response.status_code = 404
    /\ ListsSubErrors(response.response.body)
    /\ Len(response.response.body.value.d["errors"].l) = 2
    /\ outcome.exc.t = "SonarQubeNotFoundError"
    /\ outcome.exc.errors = PyList(<<>>)
    /\ Len(outcome.exc.details.d["errors"].l) = 2

\* the namespace methods that fill their mapping key by key, under an `if`
ConditionalBuilders == {"projects.search", "settings.set", "issues.bulk_change"}
\* the namespace methods that hand a mapping of all their arguments to the
\* Transport
DirectMappers == {"applications.search", "sources.raw"}

\* the arguments of the call that may be left out and are not booleans
OptionalArguments ==
    (DOMAIN call.args \ BoolArguments(call.kind)) \ {"key", "issues"}

\* the wire parameter of the argument is in the query string or the form
\* body that was sent
IsSent(arg) ==
    WireName(call.kind)[arg] \in SentKeys(sent.params) \cup SentKeys(sent.data)

\* C30 as stated: a method that builds its mapping conditionally omits an
\* optional non-boolean argument exactly when its value is falsy (None, 0,
\* "" or []); a method that hands the mapping straight to the Transport
\* omits it exactly when it is None.
C30_Original ==
    pc = "done" =>
        /\ call.kind \in ConditionalBuilders =>
                \A arg \in OptionalArguments :
                    IsSent(arg) <=> Truthy(call.args[arg])
        /\ call.kind \in DirectMappers =>
                \A arg \in OptionalArguments :
                    IsSent(arg) <=> call.args[arg] # PyNone

\* the optional arguments a conditional builder tests with `is not None`
SentWhenEmpty(kind) == IF kind = "issues.bulk_change" THEN {"assign"} ELSE {}

\* C30 as amended: as stated, except that issues.bulk_change sends assign
\* whenever it is not None, the empty string included; and what a direct
\* mapper sends for an argument is the argument itself, 0 and "" included.
C30_FalsyArguments ==
    pc = "done" =>
        /\ call.kind \in ConditionalBuilders =>
                \A arg \in OptionalArguments :
                    IsSent(arg) <=> IF arg \in SentWhenEmpty(call.kind)
                                    THEN call.args[arg] # PyNone
                                    ELSE Truthy(call.args[arg])
        /\ call.kind \in DirectMappers =>
                \A arg \in OptionalArguments :
                    /\ IsSent(arg) <=> call.args[arg] # PyNone
                    /\ IsSent(arg) => WireValue(arg) = call.args[arg]

\* issues.bulk_change(assign="", comment="") sent assign and not comment
C30_Witness ==
    /\ pc = "done"
    /\ call.kind = "issues.bulk_change"
    /\ call.args.assign = PyStr(<<>>)
    /\ call.args.comment = PyStr(<<>>)
    /\ "assign" \in SentKeys(sent.data)
    /\ sent.data.d["assign"] = PyStr(<<>>)
    /\ "comment" \notin SentKeys(sent.data)

\* C26: HTTPClient.request returns normally exactly when the status of the
\* response is 2xx: no 2xx response raises, whatever its body, and every
\* other response raises SonarQubeAPIError or a subclass, whatever its body.
C26_ReturnsIff2xx ==
    (PlainCallDone /\ Answered) =>
        IF response.response.status_code \in 200..299
        THEN outcome.kind = "return"
        ELSE /\ outcome.kind = "raise"
             /\ issubclass(outcome.exc.t, "SonarQubeAPIError")

\* C24: sources.raw and qualityprofiles.backup, whose endpoints answer
\* with a bare string on success, return that response text to the caller.
C24_RawText ==
    (/\ pc = "done"
     /\ TextCall
     /\ Answered
     /\ response.response.status_code \in 200..299
     /\ response.response.status_code # 204
     /\ response.response.body.b = "text") =>
        outcome = Return(PyStr(response.response.body.text))

-----------------------------------------------------------------------------
(* Specification SpecClient: the life of one SonarQubeClient after its     *)
(* construction: accessor reads, Transport calls and close(), in any order.*)

Accessors == {AccessorNames[i] : i \in 1..NumAccessors}

\* the class an accessor instantiates
ApiClass(a) ==
    CASE a = "applications" -> "ApplicationsAPI"
      [] a = "projects" -> "ProjectsAPI"
      [] a = "issues" -> "IssuesAPI"
      [] a = "users" -> "UsersAPI"
      [] a = "rules" -> "RulesAPI"

\* the constructions the client's life starts from: every base URL, with a
\* token or anonymous
ClientCtorCalls ==
    {[path |-> "SonarQubeClient", base_url |-> b, token |-> tk, username |-> PyNone,
      password |-> PyNone, auth |-> PyNone] :
        b \in BaseUrls, tk \in {PyNone, PyStr(<<97>>)}}

\* the calls and server behaviours met during the client's life
ClientCalls ==
    {[kind |-> "get", path |-> TestPath, params |-> PyDict([q |-> PyNone])],
     [kind |-> "get_model", path |-> TestPath,
      response_model |-> ProjectSearchResponse, params |-> PyNone],
     [kind |-> "projects.delete", args |-> [project |-> PyStr(TextX)]]}

ClientEnvs ==
    {e \in SampleEnvs : e.response.status_code \in {200, 400}}
    \cup {[fault |-> "ConnectError", text |-> TextX]}

\* the state after SonarQubeClient.__init__: every slot is None
InitClient ==
    /\ pc = "client"
    /\ ctor \in ClientCtorCalls
    /\ built = SonarQubeClient(ctor.base_url, ctor.token, ctor.username,
                               ctor.password, ctor.auth, DEFAULT_TIMEOUT)
    /\ built.raised = "none"
    /\ headers = PyNone
    /\ client = built.obj
    /\ slots = [a \in Accessors |-> PyNone]
    /\ nextId = 1
    /\ lastRead = NoRead
    /\ lastClose = NoClose
    /\ scope = NoScope
    /\ threads = NoThreads
    /\ IdleHttp

\* XAPI(self._http_client): BaseAPI.__init__ keeps a reference to the
\* HTTPClient it is given; id is the identity of the new namespace object
NamespaceObject(cls, id, http) == [t |-> cls, id |-> id, client |-> http.id]

ReadAccessor_OwnTransport(a) ==
    /\ pc = "client"
    /\ IF slots[a] = PyNone
       THEN /\ slots' = [slots EXCEPT ![a] =
                           NamespaceObject(ApiClass(a), nextId,
                                           [client.http_client EXCEPT !.id = nextId])]
            /\ nextId' = nextId + 1
       ELSE UNCHANGED <<slots, nextId>>
    /\ lastRead' = [accessor |-> a, obj |-> slots'[a]]
    /\ UNCHANGED <<pc, authVars, client, lastClose, scope, threads, httpVars>>

ReadAccessor_Fresh(a) ==
    /\ pc = "client"
    /\ nextId <= NumAccessors + 2
    /\ slots' = [slots EXCEPT ![a] =
                    NamespaceObject(ApiClass(a), nextId, client.http_client)]
    /\ nextId' = nextId + 1
    /\ lastRead' = [accessor |-> a, obj |-> slots'[a]]
    /\ UNCHANGED <<pc, authVars, client, lastClose, scope, threads, httpVars>>

\* the property of SonarQubeClient for the namespace a (applications,
\* projects, ...): fill the slot if it is None, return the slot
ReadAccessor(a) ==
    /\ pc = "client"
    /\ IF slots[a] = PyNone
       THEN /\ slots' = [slots EXCEPT ![a] =
                           NamespaceObject(ApiClass(a), nextId, client.http_client)]
            /\ nextId' = nextId + 1
       ELSE UNCHANGED <<slots, nextId>>
    /\ lastRead' = [accessor |-> a, obj |-> slots'[a]]
    /\ UNCHANGED <<pc, authVars, client, lastClose, scope, threads, httpVars>>

Accessor == \E a \in Accessors : ReadAccessor(a)

\* client.close(): SonarQubeClient.close -> HTTPClient.close
Close ==
    /\ pc = "client"
    /\ LET r == SonarQubeClient_close(client)
       IN /\ client' = r.self
          /\ lastClose' = [on |-> "SonarQubeClient",
                           already |-> client.http_client.closed,
                           outcome |-> r.outcome]
    /\ UNCHANGED <<pc, authVars, slots, nextId, lastRead, scope, threads, httpVars>>

\* a call through the client's HTTPClient
ClientCall ==
    /\ pc = "client"
    /\ \E c \in ClientCalls, e \in ClientEnvs :
        LET r == Invoke(client.http_client, c, e)
        IN /\ call' = c
           /\ response' = e
           /\ sent' = r.sent
           /\ outcome' = r.outcome
           /\ requests' = r.requests
           /\ dispatches' = r.dispatches
    /\ UNCHANGED <<pc, authVars, clientVars>>

NextClient ==
    \/ Accessor
    \/ Close
    \/ ClientCall

SpecClient == InitClient /\ [][NextClient]_vars

-----------------------------------------------------------------------------
(* Claims about the client, checked under SpecClient.                      *)

\* C6: every read of an accessor returns the instance held in its slot, and
\* a slot once filled is never replaced or reset, whatever reads, calls and
\* close() follow: all reads of one accessor return the identical instance.
C6_AccessorIdentity ==
    [][/\ \A a \in Accessors : slots[a] # PyNone => slots'[a] = slots[a]
       /\ lastRead'.accessor # "none" =>
            /\ lastRead'.obj # PyNone
            /\ lastRead'.obj = slots'[lastRead'.accessor]]_vars

\* the first accessor created was read again after another one was created
\* and after close()
C6_Witness ==
    /\ lastRead.accessor = "projects"
    /\ lastRead.obj.id = 1
    /\ nextId > 2
    /\ client.http_client.closed

\* the text does not end in '/'
NoTrailingSlash(s) == s = <<>> \/ s[Len(s)] # Slash

\* C10: the client's base_url and that of its HTTPClient are equal, are the
\* given base URL without its trailing slashes, and are changed by no
\* request, accessor read or close().
C10_BaseUrl ==
    /\ [](/\ client.base_url = client.http_client.base_url
          /\ NoTrailingSlash(client.base_url)
          /\ \E n \in 0..Len(ctor.base_url) :
                ctor.base_url = client.base_url \o Slashes(n))
    /\ [][/\ client'.base_url = client.base_url
          /\ client'.http_client.base_url = client.http_client.base_url]_vars

\* a client built from "h//" after a read, a call and close()
C10_Witness ==
    /\ ctor.base_url = <<104, 47, 47>>
    /\ client.base_url = <<104>>
    /\ lastRead.accessor # "none"
    /\ call # NoCall
    /\ client.http_client.closed

\* C29: every namespace instance of the client holds the one HTTPClient the
\* client created at construction; reading an accessor changes at most the
\* slot of that accessor, leaves every other slot, the base URL and the
\* HTTPClient as they were, and dispatches no request.
C29_SharedTransport ==
    /\ [](/\ client.http_client.id = built.obj.http_client.id
          /\ \A a \in Accessors :
                slots[a] # PyNone => slots[a].client = client.http_client.id)
    /\ [][(lastRead' # lastRead \/ slots' # slots) =>
            /\ \A b \in Accessors \ {lastRead'.accessor} : slots'[b] = slots[b]
            /\ client' = client
            /\ sent' = sent
            /\ requests' = requests
            /\ dispatches' = dispatches]_vars

\* two namespaces were read, the second one after a call and close()
C29_Witness ==
    /\ slots["projects"] # PyNone
    /\ slots["applications"] # PyNone
    /\ slots["projects"].id # slots["applications"].id
    /\ slots["projects"].client = slots["applications"].client
    /\ lastRead.accessor = "applications"
    /\ lastRead.obj.id = 2
    /\ dispatches = 1
    /\ client.http_client.closed

-----------------------------------------------------------------------------
(* Specification SpecScope: one client, closed explicitly any number of    *)
(* times and used in a `with` block, as itself or through its HTTPClient,  *)
(* with Transport calls before, inside and after the block.                *)

\* the exceptions a `with` body may end with: one of the caller's own and
\* one of the SDK's
BodyExceptions == {"KeyError", "SonarQubeAPIError"}

InitScope ==
    /\ pc = "client"
    /\ ctor = HttpSpecCtor
    /\ built = SonarQubeClient(ctor.base_url, ctor.token, ctor.username,
                               ctor.password, ctor.auth, DEFAULT_TIMEOUT)
    /\ headers = PyNone
    /\ client = built.obj
    /\ slots = [a \in Accessors |-> PyNone]
    /\ nextId = 1
    /\ lastRead = NoRead
    /\ lastClose = NoClose
    /\ scope = NoScope
    /\ threads = NoThreads
    /\ IdleHttp

\* http.close() on the client's HTTPClient itself
CloseHttp ==
    /\ pc = "client"
    /\ LET r == HTTPClient_close(client.http_client)
       IN /\ client' = [client EXCEPT !.http_client = r.self]
          /\ lastClose' = [on |-> "HTTPClient",
                           already |-> client.http_client.closed,
                           outcome |-> r.outcome]
    /\ UNCHANGED <<pc, authVars, slots, nextId, lastRead, scope, threads, httpVars>>

\* `with client:` is entered: SonarQubeClient.__enter__
EnterClient ==
    /\ pc = "client"
    /\ scope = NoScope
    /\ SonarQubeClient_enter(client).outcome = Return(client)
    /\ scope' = [state |-> "inside", on |-> "SonarQubeClient"]
    /\ UNCHANGED <<pc, authVars, client, slots, nextId, lastRead, lastClose, threads,
                 httpVars>>

\* `with http:` is entered on the client's HTTPClient: HTTPClient.__enter__
EnterHttp ==
    /\ pc = "client"
    /\ scope = NoScope
    /\ HTTPClient_enter(client.http_client).outcome = Return(client.http_client)
    /\ scope' = [state |-> "inside", on |-> "HTTPClient"]
    /\ UNCHANGED <<pc, authVars, client, slots, nextId, lastRead, lastClose, threads,
                 httpVars>>

\* the `with` block is left, its body having ended with the exception body
\* ("none": normally, or by return): __exit__ of the object the block is on
Leave(body) ==
    /\ pc = "client"
    /\ scope.state = "inside"
    /\ LET r == IF scope.on = "SonarQubeClient"
                THEN SonarQubeClient_exit(client, body)
                ELSE LET h == HTTPClient_exit(client.http_client, body)
                     IN [self |-> [client EXCEPT !.http_client = h.self],
                         outcome |-> h.outcome]
       IN /\ client' = r.self
          /\ scope' = [state |-> "left", on |-> scope.on, body |-> body,
                       propagated |-> Propagated(body, r.outcome)]
    /\ UNCHANGED <<pc, authVars, slots, nextId, lastRead, lastClose, threads, httpVars>>

ExitNormally == Leave("none")
ExitRaising == \E e \in BodyExceptions : Leave(e)

NextScope ==
    \/ Close
    \/ CloseHttp
    \/ EnterClient
    \/ EnterHttp
    \/ ExitNormally
    \/ ExitRaising
    \/ ClientCall

SpecScope == InitScope /\ [][NextScope]_vars

-----------------------------------------------------------------------------
(* Claims about release, checked under SpecScope.                          *)

\* the connection resource of the client is released
Released == client.http_client.closed

\* C19: close() on the client and on its HTTPClient, called any number of
\* times in any order, always returns None without raising and leaves the
\* resource released; once released it stays released.
C19_CloseIdempotent ==
    /\ [](lastClose.on # "none" =>
            /\ lastClose.outcome = Return(PyNone)
            /\ Released)
    /\ [][Released => client'.http_client.closed]_vars

\* close() was called on the HTTPClient of an already closed client
C19_Witness ==
    /\ lastClose.on = "HTTPClient"
    /\ lastClose.already
    /\ lastClose.outcome = Return(PyNone)
    /\ Released

\* C20: once a `with` block on the client or on its HTTPClient is left,
\* normally or by an exception, the resource is released, and what the
\* caller sees is exactly what the body ended with: an exception of the
\* body is propagated, not suppressed.
C20_ScopedRelease ==
    scope.state = "left" =>
        /\ Released
        /\ scope.propagated = scope.body

\* a `with client:` body raised, the client is closed and the exception
\* reached the caller
C20_Witness ==
    /\ scope.state = "left"
    /\ scope.on = "SonarQubeClient"
    /\ scope.body = "KeyError"
    /\ scope.propagated = "KeyError"
    /\ Released

-----------------------------------------------------------------------------
(* Specification SpecPaging: one read of a derived property of a Paging    *)
(* validated from the paging object of a response.                         *)

\* the paging objects of the enumerated responses; page sizes and totals
\* start below zero
PagingJson ==
    {PyDict([pageIndex |-> PyInt(i), pageSize |-> PyInt(z), total |-> PyInt(n)]) :
        i \in 0..MaxPageIndex, z \in (-1)..MaxPageSize, n \in (-1)..MaxTotal}

InitPaging ==
    /\ pc = "paging"
    /\ ctor = NoCall
    /\ built = Returned(PyNone)
    /\ headers = PyNone
    /\ IdleClient
    /\ call \in {[kind |-> k, self |-> model_validate(Paging, j).value] :
                    k \in {"total_pages", "has_next_page"}, j \in PagingJson}
    /\ sent = NoCall
    /\ response = NoCall
    /\ outcome = NoCall
    /\ requests = 0
    /\ dispatches = 0

\* paging.total_pages is read
TotalPages ==
    /\ pc = "paging"
    /\ call.kind = "total_pages"
    /\ outcome' = Return(Paging_total_pages(call.self))
    /\ pc' = "done"
    /\ UNCHANGED <<authVars, clientVars, call, sent, response, requests, dispatches>>

\* paging.has_next_page is read
HasNextPage ==
    /\ pc = "paging"
    /\ call.kind = "has_next_page"
    /\ outcome' = Return(Paging_has_next_page(call.self))
    /\ pc' = "done"
    /\ UNCHANGED <<authVars, clientVars, call, sent, response, requests, dispatches>>

NextPaging ==
    \/ TotalPages
    \/ HasNextPage

SpecPaging == InitPaging /\ [][NextPaging]_vars

-----------------------------------------------------------------------------
(* Claims about Paging, checked under SpecPaging.                          *)

\* n is the ceiling of total / size, for size > 0
IsCeiling(n, total, size) == n * size >= total /\ (n - 1) * size < total

\* the number of pages as the claim gives it, where it gives it: the
\* ceiling of total / page_size for a positive size and a total that is
\* not negative, 0 for a size that is not positive
ClaimedPages(self) ==
    IF self.d["page_size"].n <= 0 THEN 0
    ELSE CHOOSE n \in 0..self.d["total"].n :
            IsCeiling(n, self.d["total"].n, self.d["page_size"].n)

\* C23: total_pages is the ceiling of total / page_size when page_size > 0
\* and total >= 0 (total / page_size for an exact multiple, 0 for total 0)
\* and 0 when page_size <= 0; has_next_page is page_index < total_pages.
C23_TotalPages ==
    (pc = "done" /\ call.kind \in {"total_pages", "has_next_page"}) =>
        LET size == call.self.d["page_size"].n
            total == call.self.d["total"].n
            index == call.self.d["page_index"].n
        IN /\ (call.kind = "total_pages" /\ size > 0 /\ total >= 0) =>
                /\ outcome.value.t = "int"
                /\ IsCeiling(outcome.value.n, total, size)
                /\ total % size = 0 => outcome.value.n * size = total
                /\ total = 0 => outcome.value.n = 0
           /\ (call.kind = "total_pages" /\ size <= 0) => outcome.value = PyInt(0)
           /\ (call.kind = "has_next_page" /\ (size <= 0 \/ total >= 0)) =>
                outcome.value = PyBool(index < ClaimedPages(call.self))

\* 9 items in pages of 4 are 3 pages
C23_Witness ==
    /\ pc = "done"
    /\ call.kind = "total_pages"
    /\ call.self.d["page_size"] = PyInt(4)
    /\ call.self.d["total"] = PyInt(9)
    /\ outcome = Return(PyInt(3))

-----------------------------------------------------------------------------
(* Specification SpecThreads: several threads use one SonarQubeClient.     *)
(* Each reads one accessor and makes one call; a thread can be switched    *)
(* out between any two attribute accesses of the accessor's property.      *)

Threads == 1..NumThreads

\* every thread is about to read an accessor of a client just constructed
InitThreads ==
    /\ pc = "threads"
    /\ ctor = HttpSpecCtor
    /\ built = SonarQubeClient(ctor.base_url, ctor.token, ctor.username,
                               ctor.password, ctor.auth, DEFAULT_TIMEOUT)
    /\ headers = PyNone
    /\ client = built.obj
    /\ slots = [a \in Accessors |-> PyNone]
    /\ nextId = 1
    /\ lastRead = NoRead
    /\ lastClose = NoClose
    /\ scope = NoScope
    /\ threads \in [Threads -> {[at |-> "check", accessor |-> a, obj |-> PyNone] :
                                    a \in Accessors}]
    /\ IdleHttp

\* `if self._x is None:` in the property of the accessor
ThreadCheck(t) ==
    /\ threads[t].at = "check"
    /\ threads' = [threads EXCEPT ![t].at =
                      IF slots[threads[t].accessor] = PyNone THEN "create" ELSE "load"]
    /\ UNCHANGED <<pc, authVars, client, slots, nextId, lastRead, lastClose, scope,
                   httpVars>>

\* `self._x = XAPI(self._http_client)`
ThreadCreate(t) ==
    /\ threads[t].at = "create"
    /\ slots' = [slots EXCEPT ![threads[t].accessor] =
                    NamespaceObject(ApiClass(threads[t].accessor), nextId,
                                    client.http_client)]
    /\ nextId' = nextId + 1
    /\ threads' = [threads EXCEPT ![t].at = "load"]
    /\ UNCHANGED <<pc, authVars, client, lastRead, lastClose, scope, httpVars>>

\* `return self._x`
ThreadLoad(t) ==
    /\ threads[t].at = "load"
    /\ threads' = [threads EXCEPT ![t].at = "got",
                                  ![t].obj = slots[threads[t].accessor]]
    /\ lastRead' = [accessor |-> threads[t].accessor,
                    obj |-> slots[threads[t].accessor]]
    /\ UNCHANGED <<pc, authVars, client, slots, nextId, lastClose, scope, httpVars>>

\* the thread makes a call through the client's HTTPClient
ThreadCall(t) ==
    /\ threads[t].at = "got"
    /\ \E c \in ClientCalls, e \in ClientEnvs :
        LET r == Invoke(client.http_client, c, e)
        IN /\ call' = c
           /\ response' = e
           /\ sent' = r.sent
           /\ outcome' = r.outcome
           /\ requests' = r.requests
           /\ dispatches' = r.dispatches
    /\ threads' = [threads EXCEPT ![t].at = "done"]
    /\ UNCHANGED <<pc, authVars, client, slots, nextId, lastRead, lastClose, scope>>

Check == \E t \in Threads : ThreadCheck(t)
Create == \E t \in Threads : ThreadCreate(t)
Load == \E t \in Threads : ThreadLoad(t)
Call == \E t \in Threads : ThreadCall(t)

NextThreads ==
    \/ Check
    \/ Create
    \/ Load
    \/ Call

SpecThreads == InitThreads /\ [][NextThreads]_vars

-----------------------------------------------------------------------------
(* Claims about threads, checked under SpecThreads.                        *)

\* the thread has the instance its accessor read returned
HasInstance(t) == threads[t].at \in {"got", "done"}

\* C25: with several threads calling into one client in any interleaving,
\* no shared state is written by more than one call path: the client and
\* its Transport are only read, a namespace slot is written once, and all
\* threads that read one accessor get the identical instance.
C25_SingleWriter ==
    /\ [](\A t, u \in Threads :
            (HasInstance(t) /\ HasInstance(u)
             /\ threads[t].accessor = threads[u].accessor) =>
                threads[t].obj = threads[u].obj)
    /\ [][/\ client' = client
          /\ \A a \in Accessors : slots[a] # PyNone => slots'[a] = slots[a]]_vars

====
